---- MODULE Spec2Model ----
(***************************************************************************)
(* Model of the geological-tiff-search passage index and retrieval engine: *)
(* the chunker (src/src/text_processor.py), the index builders             *)
(* (src/src/embeddings_creator.py, src/src/simple_embeddings.py) and the   *)
(* search engine (src/src/search_engine.py).                               *)
(*                                                                         *)
(* Each component has its own specification over the shared variables:     *)
(*   ChunkSpec   one call of split_text_into_chunks, one loop iteration    *)
(*               per step;                                                 *)
(*   SearchSpec  one GeologicalSearchEngine over an index file, one        *)
(*               method call per step;                                     *)
(*   IndexSpec   the chunk and embeddings directories and the index file,  *)
(*               one run of a pipeline stage per step.                     *)
(* EngineSpec, ContextSpec, WindowSpec and DetailsSpec follow single       *)
(* methods of the engine, RagSpec the question answering of                *)
(* src/src/rag_system.py, BatchSpec the OCR batch of                       *)
(* src/src/ocr_processor.py, PipelineSpec the stages of                    *)
(* src/process_archives.py and CleanSpec clean_ocr_text.                   *)
(* Python positions are 0-based; a text is a sequence of characters and    *)
(* the character at Python position p is text[p + 1].                      *)
(***************************************************************************)
EXTENDS Integers, Sequences, FiniteSets, TLC

(***************************************************************************)
(* Bounds of the model.                                                    *)
(***************************************************************************)
MaxLen == 5
MaxChunkSize == 3
MaxOverlap == 2

\* The chunking loop is cut after this many iterations.  With
\* overlap < chunk_size the loop needs at most Len(text) iterations, so the
\* cut only stops the runs of configurations in which the loop never ends.
MaxIters == MaxLen + 2

\* The chunks of a snapshot.
MaxChunks == 3
\* top_k ranges over -1..MaxTopK, context_size over 0..MaxContext.
MaxTopK == 2
MaxContext == 1

Space == " "
Newline == "\n"
Period == "."
Letter == "a"
Alphabet == {Letter, Space, Newline, Period}

\* str.strip() without arguments removes whitespace.
Whitespace == {Space, Newline}

Min(a, b) == IF a < b THEN a ELSE b
Max(a, b) == IF a > b THEN a ELSE b

SeqsUpTo(S, n) == UNION {[1..k -> S] : k \in 0..n}

VARIABLES
    \* ---- split_text_into_chunks ----
    text,         \* the argument `text`
    chunk_size,   \* the argument `chunk_size`
    overlap,      \* the argument `overlap`
    start,        \* local `start`
    end,          \* local `end` of the last iteration
    chunks,       \* local `chunks`, the returned list
    ranges,       \* history: the [start, end) of every iteration so far
    pc,           \* position in the function: "call", "loop", "done"
    \* ---- GeologicalSearchEngine ----
    index_file,   \* the pickle at self.index_path: None (no file) or a snapshot
    index_data,   \* self.index_data
    model,        \* self.model
    loaded,       \* history: the snapshot the last load_index read
    call,         \* the last method call and its arguments
    ret,          \* what that call returned or raised
    \* ---- the data directories of the index builders ----
    chunk_dir,    \* data/processed_chunks: chunks file name -> its chunk list
    emb_dir,      \* data/embeddings: embeddings file name -> its chunk list
    \* ---- GeologicalRAGSystem.ask_question ----
    rag_pc,         \* position in ask_question: "idle", "search", "generate"
    search_results, \* what the search step of this run gave: None before it
    requests,       \* history: the generator calls of this run and their outcomes
    \* ---- the OCR batch over the files extracted from archives ----
    all_files,    \* the file_info list of the archives metadata
    tiff_dir,     \* data/extracted: the unique_ids whose TIFF file exists
    text_dir,     \* data/extracted_text: unique_id -> its JSON output file
    ocr,          \* the locals of the process_extracted_files run
    \* ---- ArchivePipeline.run_full_pipeline ----
    pipeline      \* the locals of the run and the reports of its stages

chunkVars == <<text, chunk_size, overlap, start, end, chunks, ranges, pc>>
engineVars == <<index_file, index_data, model, loaded, call, ret>>
dirVars == <<chunk_dir, emb_dir>>
ragVars == <<rag_pc, search_results, requests>>
batchVars == <<all_files, tiff_dir, text_dir, ocr, pipeline>>

vars == <<text, chunk_size, overlap, start, end, chunks, ranges, pc,
          index_file, index_data, model, loaded, call, ret, chunk_dir, emb_dir,
          rag_pc, search_results, requests, all_files, tiff_dir, text_dir, ocr,
          pipeline>>

\* A directory without files.
EmptyDir == <<>>

\* Python's None.  self.model is None or a SentenceTransformer object.
None == [class |-> "NoneType"]
SentenceTransformer(name) == [class |-> "SentenceTransformer", name |-> name]

(***************************************************************************)
(* Python string primitives used by the chunker.                           *)
(***************************************************************************)

\* A slice bound as Python adjusts it: a negative bound counts from the end,
\* and the result is clipped to 0..n.
SliceIndex(i, n) == IF i < 0 THEN Max(i + n, 0) ELSE Min(i, n)

\* s[i:j]
Slice(s, i, j) == SubSeq(s, SliceIndex(i, Len(s)) + 1, SliceIndex(j, Len(s)))

\* s.rfind(ch, i, j): the highest position p of ch with i <= p < j (bounds
\* adjusted as for a slice), -1 when there is none.
RFind(s, ch, i, j) ==
    LET a == SliceIndex(i, Len(s))
        b == SliceIndex(j, Len(s))
        hits == {p \in a..(b - 1) : s[p + 1] = ch}
    IN  IF hits = {} THEN -1 ELSE CHOOSE p \in hits : \A q \in hits : q <= p

\* A variant of Strip that removes the leading whitespace only.
LStrip(s) ==
    LET keep == {p \in 1..Len(s) : s[p] \notin Whitespace}
    IN  IF keep = {} THEN <<>>
        ELSE SubSeq(s, CHOOSE p \in keep : \A q \in keep : p <= q, Len(s))

\* s.strip()
Strip(s) ==
    LET keep == {p \in 1..Len(s) : s[p] \notin Whitespace}
    IN  IF keep = {} THEN <<>>
        ELSE LET lo == CHOOSE p \in keep : \A q \in keep : p <= q
                 hi == CHOOSE p \in keep : \A q \in keep : q <= p
             IN  SubSeq(s, lo, hi)

(***************************************************************************)
(* split_text_into_chunks                                                  *)
(***************************************************************************)

\* A variant of FitsOneChunk that sends a text of exactly chunk_size
\* characters into the loop.
FitsOneChunkStrict(t, size) == Len(t) < size

\* if len(text) <= chunk_size
FitsOneChunk(t, size) == Len(t) <= size

\* A variant of BestBreak that looks for spaces and newlines only.
BestBreakWithoutPeriod(t, s, e) == Max(RFind(t, Space, s, e), RFind(t, Newline, s, e))

\* best_break = max(last_space, last_newline, last_period)
BestBreak(t, s, e) ==
    Max(RFind(t, Space, s, e), Max(RFind(t, Newline, s, e), RFind(t, Period, s, e)))

\* The value of `end` after the break-point search of one iteration.
ChunkEnd(t, s, size) ==
    LET cand == Min(s + size, Len(t))
    IN  IF cand < Len(t)
        THEN LET best_break == BestBreak(t, s, cand)
             IN  IF best_break > s THEN best_break + 1 ELSE cand
        ELSE cand

\* A variant of Advance that steps back from the end of the chunk only.
AdvanceFromEnd(s, e, size, ov) == e - ov

\* start = max(start + chunk_size - overlap, end - overlap)
Advance(s, e, size, ov) == Max(s + size - ov, e - ov)

\* return [text]
SplitShort ==
    /\ pc = "call"
    /\ FitsOneChunk(text, chunk_size)
    /\ chunks' = <<text>>
    /\ pc' = "done"
    /\ UNCHANGED <<text, chunk_size, overlap, start, end, ranges>>
    /\ UNCHANGED <<engineVars, dirVars, ragVars, batchVars>>

\* chunks = []; start = 0
SplitEnter ==
    /\ pc = "call"
    /\ ~FitsOneChunk(text, chunk_size)
    /\ chunks' = <<>>
    /\ start' = 0
    /\ pc' = "loop"
    /\ UNCHANGED <<text, chunk_size, overlap, end, ranges>>
    /\ UNCHANGED <<engineVars, dirVars, ragVars, batchVars>>

\* One evaluation of the while condition and, when it holds, one pass
\* through the loop body.
SplitIterate ==
    /\ pc = "loop"
    /\ Len(ranges) < MaxIters
    /\ IF start < Len(text)
       THEN LET e == ChunkEnd(text, start, chunk_size)
                chunk == Strip(Slice(text, start, e))
            IN  /\ end' = e
                /\ chunks' = IF chunk # <<>> THEN Append(chunks, chunk) ELSE chunks
                /\ ranges' = Append(ranges, [start |-> start, end |-> e,
                                             emitted |-> chunk # <<>>])
                /\ IF e >= Len(text)
                   THEN pc' = "done" /\ start' = start
                   ELSE /\ pc' = "loop"
                        /\ start' = Advance(start, e, chunk_size, overlap)
       ELSE /\ pc' = "done"
            /\ UNCHANGED <<start, end, chunks, ranges>>
    /\ UNCHANGED <<text, chunk_size, overlap>>
    /\ UNCHANGED <<engineVars, dirVars, ragVars, batchVars>>

\* No engine exists while the chunker is studied.
\* No ask_question call is under way.
NoRag ==
    /\ rag_pc = "idle"
    /\ search_results = None
    /\ requests = <<>>

\* No archive has been extracted and no OCR batch has run.
NoBatch ==
    /\ all_files = <<>>
    /\ tiff_dir = {}
    /\ text_dir = EmptyDir
    /\ ocr = None
    /\ pipeline = None

NoEngine ==
    /\ index_file = None
    /\ index_data = None
    /\ model = None
    /\ loaded = None
    /\ call = None
    /\ ret = None
    /\ chunk_dir = EmptyDir
    /\ emb_dir = EmptyDir

ChunkInit ==
    /\ text \in SeqsUpTo(Alphabet, MaxLen)
    /\ chunk_size \in 1..MaxChunkSize
    /\ overlap \in 0..MaxOverlap
    /\ start = 0
    /\ end = 0
    /\ chunks = <<>>
    /\ ranges = <<>>
    /\ pc = "call"
    /\ NoEngine
    /\ NoRag
    /\ NoBatch

ChunkNext == SplitShort \/ SplitEnter \/ SplitIterate

ChunkSpec == ChunkInit /\ [][ChunkNext]_vars

(***************************************************************************)
(* Properties of split_text_into_chunks.                                   *)
(***************************************************************************)

\* The source ranges of the chunks returned, in order (an iteration whose
\* range is all whitespace appends nothing).
EmittedRanges == SelectSeq(ranges, LAMBDA r : r.emitted)

\* Position p of the text lies in the source range of some returned chunk.
InSomeChunk(p) ==
    \E k \in 1..Len(EmittedRanges) :
        EmittedRanges[k].start <= p /\ p < EmittedRanges[k].end

\* C1 (chunk round-trip): with 0 <= overlap < chunk_size, the returned
\* chunks, overlaps removed, give back the text up to whitespace at the
\* chunk edges.  The chunks are trimmed substrings text[start:end] taken
\* left to right, so this says that every non-whitespace character of a
\* text longer than chunk_size lies in the range of some returned chunk.
C1_ChunkRoundTrip ==
    (pc = "done" /\ overlap < chunk_size /\ ~FitsOneChunk(text, chunk_size))
        => \A p \in 0..(Len(text) - 1) :
               text[p + 1] \notin Whitespace => InSomeChunk(p)

\* C2 (overlap invariant): for a text longer than chunk_size and
\* chunk_size >= overlap, the ranges of consecutive chunks share at least
\* `overlap` characters: the next start is at most the end minus overlap.
C2_OverlapInvariant ==
    (Len(text) > chunk_size /\ chunk_size >= overlap)
        => \A i \in 1..(Len(EmittedRanges) - 1) :
               EmittedRanges[i + 1].start <= EmittedRanges[i].end - overlap

\* C3 (short text): a text of at most chunk_size characters, the empty text
\* and a text of exactly chunk_size characters included, comes back as the
\* single chunk [text], unchanged, whatever the overlap.
C3_ShortTextSingleChunk ==
    (pc = "done" /\ Len(text) <= chunk_size) => chunks = <<text>>

\* A text of exactly chunk_size characters that begins with whitespace has
\* been returned as one chunk, under an overlap that is not below chunk_size.
C3_Witness ==
    /\ pc = "done"
    /\ Len(text) = chunk_size
    /\ text[1] \in Whitespace
    /\ overlap >= chunk_size
    /\ chunks = <<text>>

EMBEDDING_MODEL == "paraphrase-multilingual-MiniLM-L12-v2"
TFIDF == "TF-IDF"
ModelNames == {EMBEDDING_MODEL, TFIDF}

Texts == {"t1", "t2"}

DigitChars == <<"0", "1", "2", "3", "4", "5", "6", "7", "8", "9">>

\* str(i) for i >= 0, as a sequence of digit characters.
RECURSIVE Digits(_)
Digits(i) ==
    IF i < 10 THEN <<DigitChars[i + 1]>>
    ELSE Digits(i \div 10) \o <<DigitChars[(i % 10) + 1]>>

\* s.rjust(width, "0")
RECURSIVE ZeroPad(_, _)
ZeroPad(s, width) == IF Len(s) >= width THEN s ELSE ZeroPad(<<"0">> \o s, width)

\* f"{i:03d}": at least three digits, more when i >= 1000.
Format03d(i) == ZeroPad(Digits(i), 3)

\* f"_chunk_{i:03d}"
ChunkIdWithoutFileId(file_id, i) == <<"_chunk_">> \o Format03d(i)

\* f"{file_id}_chunk_{i:03d}": the parts of the file_id, then the parts
\* "_chunk_" and the digits.
ChunkId(file_id, i) == file_id \o <<"_chunk_">> \o Format03d(i)

\* The chunk_data of process_extracted_text_file, without the fields no
\* later stage reads (text_length, metadata).
ChunkData(file_id, i, t) ==
    [chunk_id |-> ChunkId(file_id, i), file_id |-> file_id, filename |-> file_id,
     chunk_index |-> i, text |-> t]

\* The length of the vectors of the sentence-transformers model.
EncoderDim == 2

\* TfidfVectorizer(max_features=1000, ...)
MAX_FEATURES == 1000

\* self.model.encode(texts) on one text: a vector of float32 values, of the
\* length the model fixes.  (tolist() and the JSON file keep the values.)
Encode(m, t) == [by |-> m, of |-> t, dtype |-> "float32", dim |-> EncoderDim]

\* One row of self.vectorizer.fit_transform(all_texts): a float64 vector
\* with one column per feature of the fitted vocabulary, at most
\* max_features of them.  A text counts as one feature here.
TfidfRow(vocabulary, t) ==
    [by |-> TFIDF, of |-> t, dtype |-> "float64", vocabulary |-> vocabulary,
     dim |-> Min(MAX_FEATURES, Cardinality(vocabulary))]

\* len(embedding)
Dim(v) == v.dim

\* chunk["key"] = value on a dict
SetKey(d, k, v) == (k :> v) @@ d

\* chunk_with_embedding: the chunk with its vector.
WithEmbedding(chunk, v) ==
    SetKey(SetKey(chunk, "embedding", v), "embedding_dim", Dim(v))

\* The concatenation of a sequence of sequences.
RECURSIVE Flatten(_)
Flatten(ss) == IF ss = <<>> THEN <<>> ELSE Head(ss) \o Flatten(Tail(ss))

(***************************************************************************)
(* EmbeddingsCreator.create_search_index: the index_data built from the    *)
(* embedded chunks of the files of the embeddings directory, read in       *)
(* listing order.                                                          *)
(***************************************************************************)

\* np.array(..., dtype=np.float32) on one row: the values rounded to float32,
\* which changes nothing on a vector whose values are float32 values already.
Float32(v) == [v EXCEPT !.dtype = "float32"]

\* all_chunks.append({...})
IndexChunk(c) ==
    [chunk_id |-> c.chunk_id, file_id |-> c.file_id, filename |-> c.filename,
     text |-> c.text, chunk_index |-> c.chunk_index]

\* np.array raises on rows of different lengths.
Ragged(rows) == \E i, j \in 1..Len(rows) : Dim(rows[i]) # Dim(rows[j])

IndexData(model_name, embedded) ==
    LET all_chunks == [i \in 1..Len(embedded) |-> IndexChunk(embedded[i])]
        all_embeddings == [i \in 1..Len(embedded) |-> embedded[i].embedding]
        embeddings_array == [i \in 1..Len(embedded) |-> Float32(all_embeddings[i])]
    IN  [chunks |-> all_chunks,
         embeddings |-> embeddings_array,
         model_name |-> model_name,
         total_chunks |-> Len(all_chunks),
         embedding_dim |-> IF Len(all_embeddings) > 0
                           THEN Dim(embeddings_array[1]) ELSE 0]

(***************************************************************************)
(* The snapshots an engine is studied on: the index of one to two          *)
(* documents of at most MaxChunks chunks together, embedded by one model.  *)
(* The chunks of a document alternate between the two texts, so that a     *)
(* snapshot holds equal vectors within a document and across documents.    *)
(***************************************************************************)

SearchFiles == {<<"a">>, <<"b">>}

\* The documents of a snapshot in listing order, each with its chunk count.
DocLayouts ==
    LET Doc == SearchFiles \X (1..MaxChunks)
    IN  {<<d>> : d \in Doc} \cup
        {<<d, e>> : <<d, e>> \in {x \in Doc \X Doc : x[1][1] # x[2][1]}}

LayoutSize(l) == IF Len(l) = 1 THEN l[1][2] ELSE l[1][2] + l[2][2]

\* The text of chunk i of a document.
TextOf(file_id, i) ==
    IF (i + (IF file_id = <<"a">> THEN 0 ELSE 1)) % 2 = 0 THEN "t1" ELSE "t2"

\* The chunks file of one document.
ChunksFileOf(file_id, count) ==
    [i \in 1..count |-> ChunkData(file_id, i - 1, TextOf(file_id, i - 1))]

\* The texts of the documents of a layout.
LayoutTexts(l) ==
    {TextOf(l[k][1], i - 1) : <<k, i>> \in {x \in (1..Len(l)) \X (1..MaxChunks) : x[2] <= l[x[1]][2]}}

\* The embeddings file of one document: its chunks in order, with vectors.
EmbeddingsFileOf(file_id, count, m, vocabulary) ==
    LET chunks_data == ChunksFileOf(file_id, count)
    IN  [i \in 1..count |->
            WithEmbedding(chunks_data[i],
                          IF m = TFIDF THEN TfidfRow(vocabulary, chunks_data[i].text)
                                       ELSE Encode(m, chunks_data[i].text))]

\* SimpleEmbeddingsCreator.create_search_index: the index_data built from
\* the chunk list and the TF-IDF matrix it is handed.
SimpleIndexData(all_chunks, all_embeddings) ==
    LET index_chunks == [i \in 1..Len(all_chunks) |-> IndexChunk(all_chunks[i])]
    IN  [chunks |-> index_chunks,
         embeddings |-> all_embeddings,
         vectorizer |-> "TfidfVectorizer",
         model_name |-> TFIDF,
         total_chunks |-> Len(index_chunks),
         embedding_dim |-> IF Len(all_embeddings) > 0
                           THEN Dim(all_embeddings[1]) ELSE 0]

SnapshotOf(l, m) ==
    LET embedded == Flatten([k \in 1..Len(l) |->
                                EmbeddingsFileOf(l[k][1], l[k][2], m,
                                                 LayoutTexts(l))])
    IN  IF m = TFIDF
        THEN SimpleIndexData(embedded,
                             [i \in 1..Len(embedded) |-> embedded[i].embedding])
        ELSE IndexData(m, embedded)

Snapshots ==
    {SnapshotOf(l, m) :
        <<l, m>> \in {l \in DocLayouts : LayoutSize(l) <= MaxChunks} \X ModelNames}

(***************************************************************************)
(* GeologicalSearchEngine                                                  *)
(***************************************************************************)

Returned(v) == [kind |-> "return", value |-> v]
Raised(e) == [kind |-> "raise", error |-> e]

\* Cosine similarities, counted in a fixed unit, and the thresholds a
\* caller passes as min_similarity.
SimValues == {-1, 0, 1}
Thresholds == {-1, 0, 1, 2}

\* A query is known by the cosine similarity of its vector to the vector of
\* every text.
Queries == [Texts -> SimValues]

\* SentenceTransformer(model_name) can only load a sentence-transformers
\* model; "TF-IDF" names none.
Loadable(name) == name # TFIDF

\* cosine_similarity(query_vector, embeddings)[0]
Similarities(q, embeddings) == [i \in 1..Len(embeddings) |-> q[embeddings[i].of]]

Orderings(n) == {p \in [1..n -> 1..n] : \A i, j \in 1..n : i # j => p[i] # p[j]}

\* A variant of RankedIndices without the reversal.
RankedIndicesAscending(similarities) ==
    {p \in Orderings(Len(similarities)) :
        \A i, j \in 1..Len(similarities) :
            i < j => similarities[p[i]] <= similarities[p[j]]}

\* np.argsort(similarities)[::-1]: the chunk positions by decreasing
\* similarity; the order among equal similarities is whatever the sort
\* leaves, so every order is possible.
RankedIndices(similarities) ==
    {p \in Orderings(Len(similarities)) :
        \A i, j \in 1..Len(similarities) :
            i < j => similarities[p[i]] >= similarities[p[j]]}

\* A variant of PastTopK that lets one more result through.
PastTopKOffByOne(i, top_k) == i > top_k

\* if i >= top_k: break
PastTopK(i, top_k) == i >= top_k

\* A variant of BelowThreshold that never stops the loop.
BelowThresholdIgnored(similarity, min_similarity) == FALSE

\* if similarity < min_similarity: break
BelowThreshold(similarity, min_similarity) == similarity < min_similarity

\* results of the loop of search, from loop index i (0-based) on.
RECURSIVE SearchLoop(_, _, _, _, _, _)
SearchLoop(chunkList, similarities, ranked_indices, top_k, min_similarity, i) ==
    IF i >= Len(ranked_indices) THEN <<>>
    ELSE IF PastTopK(i, top_k) THEN <<>>
    ELSE LET idx == ranked_indices[i + 1]
             similarity == similarities[idx]
         IN  IF BelowThreshold(similarity, min_similarity) THEN <<>>
             ELSE <<SetKey(SetKey(chunkList[idx], "similarity", similarity),
                           "rank", i + 1)>>
                  \o SearchLoop(chunkList, similarities, ranked_indices,
                                top_k, min_similarity, i + 1)

\* search from vectorize_query on, on an engine that holds a snapshot:
\* vectorize_query raises without a model, cosine_similarity raises on an
\* empty matrix and on vectors of another length than the query vector.
SearchLoaded(data, mdl, q, top_k, min_similarity) ==
    IF mdl = None THEN {Raised("ValueError")}
    ELSE IF data.total_chunks = 0 \/ data.embedding_dim # Dim(Encode(mdl.name, q))
    THEN {Raised("ValueError")}
    ELSE LET similarities == Similarities(q, data.embeddings)
         IN  {Returned(SearchLoop(data.chunks, similarities, ranked_indices,
                                  top_k, min_similarity, 0)) :
                 ranked_indices \in RankedIndices(similarities)}

\* A variant of SearchOutcomes that answers with no results when no
\* snapshot is loaded.
SearchOutcomesUnguarded(data, mdl, q, top_k, min_similarity) ==
    IF data = None THEN {Returned(<<>>)}
    ELSE SearchLoaded(data, mdl, q, top_k, min_similarity)

\* The outcomes of search(query, top_k, min_similarity) on an engine state.
SearchOutcomes(data, mdl, q, top_k, min_similarity) ==
    IF data = None THEN {Raised("ValueError")}
    ELSE SearchLoaded(data, mdl, q, top_k, min_similarity)

\* The engine is called by one caller, one call at a time.
Idle == call = None

\* The outcomes of load_index() on an engine that holds data and mdl, with
\* the index file as given: what the engine holds afterwards, and what the
\* call returned or raised.  SentenceTransformer(model_name) can raise for
\* any name (a model that is not cached and cannot be fetched), and always
\* raises for a name that names no model; index_data is assigned before.
LoadIndexOutcomes(file, data, mdl) ==
    IF file = None
    THEN {[index_data |-> data, model |-> mdl, ret |-> Raised("FileNotFoundError")]}
    ELSE {[index_data |-> file, model |-> SentenceTransformer(file.model_name),
           ret |-> Returned(None)] :
             name \in IF Loadable(file.model_name) THEN {file.model_name} ELSE {}}
         \cup {[index_data |-> file, model |-> mdl, ret |-> Raised("SentenceTransformer")]}

\* load_index()
LoadIndex ==
    /\ Idle
    /\ call' = [op |-> "load_index"]
    /\ \E o \in LoadIndexOutcomes(index_file, index_data, model) :
          /\ index_data' = o.index_data
          /\ model' = o.model
          /\ ret' = o.ret
    /\ loaded' = IF index_file = None THEN loaded ELSE index_file
    /\ UNCHANGED <<index_file>>
    /\ UNCHANGED <<chunkVars, ragVars, batchVars, dirVars>>

\* search(query, top_k, min_similarity)
Search ==
    \E q \in Queries, top_k \in (-1)..MaxTopK, min_similarity \in Thresholds :
        /\ Idle
        /\ call' = [op |-> "search", query |-> q, top_k |-> top_k,
                    min_similarity |-> min_similarity]
        /\ ret' \in SearchOutcomes(index_data, model, q, top_k, min_similarity)
        /\ UNCHANGED <<index_file, index_data, model, loaded>>
        /\ UNCHANGED <<chunkVars, ragVars, batchVars, dirVars>>

\* sum(seq)
RECURSIVE Sum(_)
Sum(seq) == IF seq = <<>> THEN 0 ELSE Head(seq) + Sum(Tail(seq))

\* A variant of MaxOf that takes the least value.
MinOf(seq) == CHOOSE x \in {seq[i] : i \in 1..Len(seq)} :
                  \A i \in 1..Len(seq) : x <= seq[i]

\* max(seq) of a non-empty list
MaxOf(seq) == CHOOSE x \in {seq[i] : i \in 1..Len(seq)} :
                  \A i \in 1..Len(seq) : seq[i] <= x

\* np.mean(seq) of a non-empty list, as the fraction sum / count
Mean(seq) == [sum |-> Sum(seq), count |-> Len(seq)]

\* files_found: the results grouped by file_id, each group in result order
FilesFound(results) ==
    [f \in {results[i].file_id : i \in 1..Len(results)} |->
        SelectSeq(results, LAMBDA r : r.file_id = f)]

\* The dictionary search_with_details builds from the results of search.
Details(q, results) ==
    LET sims == [i \in 1..Len(results) |-> results[i].similarity]
        files_found == FilesFound(results)
    IN  [query |-> q,
         total_results |-> Len(results),
         results |-> results,
         files_found |-> files_found,
         stats |-> [average_similarity |-> IF results # <<>> THEN Mean(sims) ELSE 0,
                    max_similarity |-> IF results # <<>> THEN MaxOf(sims) ELSE 0,
                    files_count |-> Cardinality(DOMAIN files_found)]]

\* search_with_details(query, top_k): search with the default
\* min_similarity 0.0; an exception of search passes through.
SearchWithDetails ==
    \E q \in Queries, top_k \in (-1)..MaxTopK :
        /\ Idle
        /\ call' = [op |-> "search_with_details", query |-> q, top_k |-> top_k]
        /\ \E out \in SearchOutcomes(index_data, model, q, top_k, 0) :
              ret' = IF out.kind = "raise" THEN out
                     ELSE Returned(Details(q, out.value))
        /\ UNCHANGED <<index_file, index_data, model, loaded>>
        /\ UNCHANGED <<chunkVars, ragVars, batchVars, dirVars>>

\* positions.sort(key=chunk_index): list.sort is stable, so equal keys keep
\* their order.
SortByChunkIndex(chunkList, positions) ==
    CHOOSE s \in [1..Len(positions) -> {positions[k] : k \in 1..Len(positions)}] :
        /\ \A i, j \in 1..Len(positions) : i # j => s[i] # s[j]
        /\ \A i, j \in 1..Len(positions) :
              i < j => \/ chunkList[s[i]].chunk_index < chunkList[s[j]].chunk_index
                       \/ /\ chunkList[s[i]].chunk_index = chunkList[s[j]].chunk_index
                          /\ s[i] < s[j]

\* The positions, in self.index_data["chunks"], of the context_chunks of
\* get_chunk_context, in the order returned.  The lists of the method hold
\* the chunk objects of the index themselves, so a position stands for the
\* object.
ContextPositions(chunkList, chunk_id, context_size) ==
    LET hits == {i \in 1..Len(chunkList) : chunkList[i].chunk_id = chunk_id}
    IN  IF hits = {} THEN <<>>
        ELSE LET target_idx == CHOOSE i \in hits : \A j \in hits : i <= j
                 file_id == chunkList[target_idx].file_id
                 all_positions == [i \in 1..Len(chunkList) |-> i]
                 file_chunks ==
                     SortByChunkIndex(chunkList,
                         SelectSeq(all_positions,
                                   LAMBDA i : chunkList[i].file_id = file_id))
                 matches == {k \in 1..Len(file_chunks) :
                                chunkList[file_chunks[k]].chunk_id = chunk_id}
                 target_pos == (CHOOSE k \in matches : \A j \in matches : k <= j) - 1
                 from == Max(0, target_pos - context_size)
                 to == Min(Len(file_chunks), target_pos + context_size + 1)
             IN  Slice(file_chunks, from, to)

\* A variant of MarkTarget that flags every chunk of the window.
MarkTargetAlways(chunk, chunk_id) == SetKey(chunk, "is_target", TRUE)

\* for chunk in context_chunks: chunk["is_target"] = (chunk["chunk_id"] == chunk_id)
MarkTarget(chunk, chunk_id) == SetKey(chunk, "is_target", chunk.chunk_id = chunk_id)

\* get_chunk_context(chunk_id, context_size)
GetChunkContext ==
    \E f \in SearchFiles, i \in 0..(MaxChunks - 1), context_size \in 0..MaxContext :
        LET chunk_id == ChunkId(f, i)
        IN  /\ Idle
            /\ call' = [op |-> "get_chunk_context", chunk_id |-> chunk_id,
                        context_size |-> context_size]
            /\ IF index_data = None
               THEN /\ ret' = Raised("TypeError")
                    /\ UNCHANGED index_data
               ELSE LET context == ContextPositions(index_data.chunks, chunk_id,
                                                    context_size)
                        marked == [p \in 1..Len(index_data.chunks) |->
                                     IF \E k \in 1..Len(context) : context[k] = p
                                     THEN MarkTarget(index_data.chunks[p], chunk_id)
                                     ELSE index_data.chunks[p]]
                    IN  /\ index_data' = [index_data EXCEPT !.chunks = marked]
                        /\ ret' = Returned([k \in 1..Len(context) |-> marked[context[k]]])
            /\ UNCHANGED <<index_file, model, loaded>>
            /\ UNCHANGED <<chunkVars, ragVars, batchVars, dirVars>>

\* The pipeline writes search_index.pkl where there was none.
IndexFileWritten ==
    /\ Idle
    /\ index_file = None
    /\ index_file' \in Snapshots
    /\ UNCHANGED <<index_data, model, loaded, call, ret>>
    /\ UNCHANGED <<chunkVars, ragVars, batchVars, dirVars>>

\* The caller has taken what the call returned or raised.
CallReturns ==
    /\ ~Idle
    /\ ret # None
    /\ call' = None
    /\ ret' = None
    /\ UNCHANGED <<index_file, index_data, model, loaded>>
    /\ UNCHANGED <<chunkVars, ragVars, batchVars, dirVars>>

\* No call of the chunker is under way while the engine is studied.
NoChunking ==
    /\ text = <<>>
    /\ chunk_size = 1
    /\ overlap = 0
    /\ start = 0
    /\ end = 0
    /\ chunks = <<>>
    /\ ranges = <<>>
    /\ pc = "done"

\* The state after GeologicalSearchEngine(): without an index file the
\* engine holds nothing; with one, load_index has run (a constructor whose
\* load_index raises yields no engine).
SearchInit ==
    /\ NoChunking
    /\ NoRag
    /\ NoBatch
    /\ chunk_dir = EmptyDir
    /\ emb_dir = EmptyDir
    /\ index_file \in {None} \cup {s \in Snapshots : Loadable(s.model_name)}
    /\ index_data = index_file
    /\ loaded = index_file
    /\ model = IF index_file = None THEN None
               ELSE SentenceTransformer(index_file.model_name)
    /\ call = None
    /\ ret = None

SearchNext ==
    \/ LoadIndex
    \/ Search
    \/ SearchWithDetails
    \/ GetChunkContext
    \/ IndexFileWritten
    \/ CallReturns

SearchSpec == SearchInit /\ [][SearchNext]_vars

(***************************************************************************)
(* Properties of the search engine.                                        *)
(***************************************************************************)

\* The last call, still with the caller, was a call of method op.
Called(op) == call # None /\ call.op = op

\* C5 (ranking order): the list search returns has non-increasing
\* similarity from first to last, and the rank fields are 1, 2, ...,
\* len(results) in list order.
C5_RankingOrder ==
    (Called("search") /\ ret.kind = "return")
        => \A i \in 1..Len(ret.value) :
               /\ ret.value[i].rank = i
               /\ i < Len(ret.value)
                    => ret.value[i].similarity >= ret.value[i + 1].similarity

\* search has returned two results of different similarity.
C5_Witness ==
    /\ Called("search")
    /\ ret.kind = "return"
    /\ Len(ret.value) = 2
    /\ ret.value[1].similarity > ret.value[2].similarity

\* C6 (threshold semantics): no result search returns has a similarity
\* below min_similarity, and for the same snapshot, query and top_k a
\* higher min_similarity never gives more results and a lower one never
\* fewer.
C6_ThresholdSemantics ==
    (Called("search") /\ ret.kind = "return")
        => /\ \A i \in 1..Len(ret.value) :
                  ret.value[i].similarity >= call.min_similarity
           /\ \A m2 \in Thresholds :
                  \A other \in SearchOutcomes(index_data, model, call.query,
                                              call.top_k, m2) :
                      /\ other.kind = "return"
                      /\ m2 >= call.min_similarity
                           => Len(other.value) <= Len(ret.value)
                      /\ m2 <= call.min_similarity
                           => Len(other.value) >= Len(ret.value)

\* search has returned a result and stopped at the threshold before top_k
\* and before the end of the index.
C6_Witness ==
    /\ Called("search")
    /\ ret.kind = "return"
    /\ Len(ret.value) = 1
    /\ call.top_k > 1
    /\ index_data.total_chunks > 1

\* The orders of the positions 1..Len(sims) by decreasing similarity.
SimilarityDescending(sims) ==
    {p \in [1..Len(sims) -> 1..Len(sims)] :
        /\ \A i, j \in 1..Len(sims) : i # j => p[i] # p[j]
        /\ \A i \in 1..(Len(sims) - 1) : sims[p[i]] >= sims[p[i + 1]]}

\* The results numbered by their place in the list.
WithRanks(seq) == [i \in 1..Len(seq) |-> SetKey(seq[i], "rank", i)]

\* C7 (longest prefix): what search returns is, for some order of all
\* indexed chunks by decreasing similarity, the longest prefix of at most
\* top_k chunks all of similarity >= min_similarity, each chunk with its
\* similarity and its rank; it is also that order filtered by
\* similarity >= min_similarity and then cut to top_k chunks; it has at most
\* min(top_k, total_chunks) chunks and none when top_k <= 0.
C7_LongestPrefix ==
    (Called("search") /\ ret.kind = "return")
        => LET sims == Similarities(call.query, index_data.embeddings)
               k == Max(call.top_k, 0)
               m == call.min_similarity
           IN  /\ Len(ret.value) <= Min(k, index_data.total_chunks)
               /\ call.top_k <= 0 => ret.value = <<>>
               /\ \E p \in SimilarityDescending(sims) :
                     LET sorted == [i \in 1..Len(sims) |->
                                      SetKey(index_data.chunks[p[i]],
                                             "similarity", sims[p[i]])]
                         prefixes == {l \in 0..Len(sims) :
                                        /\ l <= k
                                        /\ \A i \in 1..l : sorted[i].similarity >= m}
                         longest == CHOOSE l \in prefixes : \A o \in prefixes : o <= l
                         filtered == SelectSeq(sorted, LAMBDA r : r.similarity >= m)
                     IN  /\ ret.value = WithRanks(SubSeq(sorted, 1, longest))
                         /\ ret.value = WithRanks(SubSeq(filtered, 1,
                                                         Min(Len(filtered), k)))

\* search has returned exactly top_k results although more chunks reach
\* min_similarity.
C7_Witness ==
    /\ Called("search")
    /\ ret.kind = "return"
    /\ call.top_k = 2
    /\ Len(ret.value) = 2
    /\ index_data.total_chunks = 3
    /\ \A i \in 1..3 :
          Similarities(call.query, index_data.embeddings)[i] >= call.min_similarity

\* C8 (no snapshot, no model): search on an engine without a snapshot, or
\* with a snapshot but without a query model, raises its ValueError and
\* returns no list.
C8_SearchUnloadedRaises ==
    (Called("search") /\ (index_data = None \/ model = None))
        => ret = Raised("ValueError")

\* search has raised on an engine that holds a snapshot and no model.
C8_Witness ==
    /\ Called("search")
    /\ index_data # None
    /\ model = None
    /\ ret.kind = "raise"

\* C9 (read-only snapshot): after any sequence of search,
\* search_with_details and get_chunk_context calls, index_data is what
\* load_index loaded.
C9_SnapshotReadOnly == index_data = loaded

(***************************************************************************)
(* The index builders over the data directories.                           *)
(*                                                                         *)
(* A file name is the file_id it was built from followed by its suffix     *)
(* part; the extension .json is left out.  os.listdir returns the files    *)
(* of a directory in an order the file system chooses.                     *)
(***************************************************************************)

MaxDocChunks == 2

\* The documents of the directories.  The third one has a file_id that
\* holds the suffix of the chunks files, the fourth one a file_id that reads
\* like a chunk_id of the first.
IndexFiles == {<<"a">>, <<"b">>, <<"a", "_chunks">>, <<"a", "_chunk_", "0", "0", "0">>}

\* The number of documents chunked in one behaviour.
MaxDocs == Cardinality(IndexFiles) - 2

\* f"{file_id}_chunks.json"
ChunksFileName(file_id) == Append(file_id, "_chunks")

\* f"{file_id}_embeddings.json"
EmbeddingsFileName(file_id) == Append(file_id, "_embeddings")

IsNotChunksPart(part) == part # "_chunks"

\* os.path.splitext(filename)[0].replace('_chunks', '')
DerivedFileId(filename) == SelectSeq(filename, IsNotChunksPart)

\* with open(path, 'w'): the file is created or replaced.
Put(dir, name, content) == (name :> content) @@ dir

\* The orders in which os.listdir can return the files of a directory.
ListDir(dir) ==
    {l \in [1..Cardinality(DOMAIN dir) -> DOMAIN dir] :
        \A i, j \in DOMAIN l : i # j => l[i] # l[j]}

\* A sequence of file writes, carried out in order.
RECURSIVE WriteFiles(_, _)
WriteFiles(dir, writes) ==
    IF writes = <<>> THEN dir
    ELSE WriteFiles(Put(dir, Head(writes).name, Head(writes).content), Tail(writes))

\* process_extracted_text_file: the chunks file of one document.
ProcessExtractedTextFile ==
    /\ Idle
    /\ Cardinality(DOMAIN chunk_dir) < MaxDocs
    /\ \E file_id \in IndexFiles, count \in 0..MaxDocChunks :
          /\ ChunksFileName(file_id) \notin DOMAIN chunk_dir
          /\ chunk_dir' = Put(chunk_dir, ChunksFileName(file_id),
                              ChunksFileOf(file_id, count))
    /\ UNCHANGED <<emb_dir, chunkVars, ragVars, batchVars, engineVars>>

\* EmbeddingsCreator.create_embeddings_for_chunks
CreateEmbeddingsForChunks(chunks_data) ==
    [i \in 1..Len(chunks_data) |->
        WithEmbedding(chunks_data[i], Encode(EMBEDDING_MODEL, chunks_data[i].text))]

\* EmbeddingsCreator.process_chunks_file: the file it writes.
ProcessChunksFile(filename, chunks_data) ==
    [name |-> EmbeddingsFileName(DerivedFileId(filename)),
     content |-> CreateEmbeddingsForChunks(chunks_data)]

\* EmbeddingsCreator.create_search_index over the files of the embeddings
\* directory in listing order: the content of search_index.pkl afterwards.
\* np.array raises on ragged rows, before anything is written.
CreateSearchIndex(dir, embedding_files, old) ==
    LET embedded == Flatten([k \in 1..Len(embedding_files) |-> dir[embedding_files[k]]])
    IN  IF Ragged([i \in 1..Len(embedded) |-> embedded[i].embedding])
        THEN old
        ELSE IndexData(EMBEDDING_MODEL, embedded)

\* EmbeddingsCreator.process_all_chunks: every chunks file is embedded and
\* written, then the index is built from the directory.
EmbeddingsProcessAllChunks ==
    /\ Idle
    /\ DOMAIN chunk_dir # {}
    /\ \E chunks_files \in ListDir(chunk_dir) :
          LET writes == [k \in 1..Len(chunks_files) |->
                            ProcessChunksFile(chunks_files[k], chunk_dir[chunks_files[k]])]
              dir == WriteFiles(emb_dir, writes)
          IN  /\ emb_dir' = dir
              /\ \E embedding_files \in ListDir(dir) :
                    index_file' = CreateSearchIndex(dir, embedding_files, index_file)
    /\ UNCHANGED <<chunk_dir, index_data, model, loaded, call, ret, chunkVars, ragVars, batchVars>>

\* EmbeddingsCreator.create_search_index, called on the directory as it is.
EmbeddingsCreateSearchIndex ==
    /\ Idle
    /\ \E embedding_files \in ListDir(emb_dir) :
          index_file' = CreateSearchIndex(emb_dir, embedding_files, index_file)
    /\ UNCHANGED <<chunk_dir, emb_dir, index_data, model, loaded, call, ret, chunkVars, ragVars, batchVars>>

\* GeologicalSearchEngine.build_index: the index is built from the
\* embeddings files found, then loaded.  Without embeddings files it raises
\* FileNotFoundError, and a ragged directory makes create_search_index raise.
BuildIndex ==
    /\ Idle
    /\ call' = [op |-> "build_index"]
    /\ IF DOMAIN emb_dir = {}
       THEN /\ ret' = Raised("FileNotFoundError")
            /\ UNCHANGED <<index_file, index_data, model, loaded>>
       ELSE \E embedding_files \in ListDir(emb_dir) :
              LET embedded == Flatten([k \in 1..Len(embedding_files) |->
                                          emb_dir[embedding_files[k]]])
              IN  IF Ragged([i \in 1..Len(embedded) |-> embedded[i].embedding])
                  THEN /\ ret' = Raised("ValueError")
                       /\ UNCHANGED <<index_file, index_data, model, loaded>>
                  ELSE /\ index_file' = CreateSearchIndex(emb_dir, embedding_files,
                                                         index_file)
                       /\ loaded' = index_file'
                       /\ \E o \in LoadIndexOutcomes(index_file', index_data, model) :
                             /\ index_data' = o.index_data
                             /\ model' = o.model
                             /\ ret' = IF o.ret.kind = "return"
                                       THEN Returned("index_path") ELSE o.ret
    /\ UNCHANGED <<chunk_dir, emb_dir, chunkVars, ragVars, batchVars>>

\* start_idx = end_idx
NextStartIdx(start_idx, end_idx) == end_idx

\* The second loop of SimpleEmbeddingsCreator.process_all_chunks: each
\* chunks file gets the rows start_idx .. end_idx - 1 of the matrix.
RECURSIVE SimpleWrites(_, _, _, _, _)
SimpleWrites(cdir, chunks_files, embeddings_matrix, k, start_idx) ==
    IF k > Len(chunks_files) THEN <<>>
    ELSE LET chunks_data == cdir[chunks_files[k]]
             file_id == DerivedFileId(chunks_files[k])
             end_idx == start_idx + Len(chunks_data)
             file_embeddings == SubSeq(embeddings_matrix, start_idx + 1, end_idx)
             chunks_with_embeddings ==
                 [j \in 1..Min(Len(chunks_data), Len(file_embeddings)) |->
                     WithEmbedding(chunks_data[j], file_embeddings[j])]
         IN  <<[name |-> EmbeddingsFileName(file_id),
                content |-> chunks_with_embeddings]>>
             \o SimpleWrites(cdir, chunks_files, embeddings_matrix, k + 1,
                             NextStartIdx(start_idx, end_idx))

\* SimpleEmbeddingsCreator.process_all_chunks: the vectorizer is fitted on
\* the texts of all chunks files, the embeddings files are written, and the
\* index is built from the gathered chunks and the matrix.  fit_transform
\* raises on an empty list of texts, before anything is written.
SimpleProcessAllChunks ==
    /\ Idle
    /\ DOMAIN chunk_dir # {}
    /\ \E chunks_files \in ListDir(chunk_dir) :
          LET all_chunks_data == Flatten([k \in 1..Len(chunks_files) |->
                                             chunk_dir[chunks_files[k]]])
              all_texts == [i \in 1..Len(all_chunks_data) |-> all_chunks_data[i].text]
              vocabulary == {all_texts[i] : i \in 1..Len(all_texts)}
              embeddings_matrix == [i \in 1..Len(all_texts) |->
                                       TfidfRow(vocabulary, all_texts[i])]
              writes == SimpleWrites(chunk_dir, chunks_files, embeddings_matrix, 1, 0)
          IN  /\ all_texts # <<>>
              /\ emb_dir' = WriteFiles(emb_dir, writes)
              /\ index_file' = SimpleIndexData(all_chunks_data, embeddings_matrix)
    /\ UNCHANGED <<chunk_dir, index_data, model, loaded, call, ret, chunkVars, ragVars, batchVars>>

IndexInit ==
    /\ NoChunking
    /\ NoRag
    /\ NoBatch
    /\ index_file = None
    /\ index_data = None
    /\ model = None
    /\ loaded = None
    /\ call = None
    /\ ret = None
    /\ chunk_dir = EmptyDir
    /\ emb_dir = EmptyDir

IndexNext ==
    \/ ProcessExtractedTextFile
    \/ EmbeddingsProcessAllChunks
    \/ EmbeddingsCreateSearchIndex
    \/ BuildIndex
    \/ SimpleProcessAllChunks
    \/ CallReturns

IndexSpec == IndexInit /\ [][IndexNext]_vars

(***************************************************************************)
(* Properties of the index builders.                                       *)
(***************************************************************************)

\* The chunk records of a list of embedded chunks, each with its vector.
PairsOf(content) ==
    {<<IndexChunk(content[j]), content[j].embedding>> : j \in 1..Len(content)}

\* The chunk records stored in the embeddings files of a directory, each
\* with the vector stored with it.
StoredPairs(dir) == UNION {PairsOf(dir[name]) : name \in DOMAIN dir}

\* A snapshot row holds the stored vector, as float32 values where the
\* builder casts.
SameVector(row, stored) == row = stored \/ row = Float32(stored)

Consistent(snapshot, dir) ==
    /\ Len(snapshot.embeddings) = Len(snapshot.chunks)
    /\ Len(snapshot.chunks) = snapshot.total_chunks
    /\ \A i \in 1..Len(snapshot.chunks) :
          \E p \in StoredPairs(dir) :
              /\ p[1] = snapshot.chunks[i]
              /\ SameVector(snapshot.embeddings[i], p[2])

\* C10 (index consistency): whenever a builder writes the snapshot, the
\* snapshot has as many embedding rows as chunk records and as
\* total_chunks says, and row i is the vector that an embeddings file of
\* the directory stores with chunk record i.
C10_IndexConsistency ==
    [][index_file' # index_file => Consistent(index_file', emb_dir')]_vars

\* Chunk indexes around the widths at which {i:03d} grows.
BoundaryIndexes == (0..MaxDocChunks) \cup {99, 100, 999, 1000}

\* C11 (unique chunk ids): in every snapshot the builders write or the
\* engine builds, no two chunk records carry the same chunk_id; and the
\* chunk_id of a document and a chunk index belongs to no other document
\* and no other index.
C11_UniqueChunkIds ==
    /\ index_file # None
          => \A i, j \in 1..Len(index_file.chunks) :
                i # j => index_file.chunks[i].chunk_id # index_file.chunks[j].chunk_id
    /\ \A f, g \in IndexFiles : \A i, j \in BoundaryIndexes :
          ChunkId(f, i) = ChunkId(g, j) => (f = g /\ i = j)

\* A snapshot has been written that holds chunks of the document a and of
\* the document whose file_id reads like a chunk_id of a, after an
\* embeddings directory already held files.
C11_Witness ==
    /\ index_file # None
    /\ \E i, j \in 1..Len(index_file.chunks) :
          /\ index_file.chunks[i].file_id = <<"a">>
          /\ index_file.chunks[j].file_id = <<"a", "_chunk_", "0", "0", "0">>
          /\ index_file.chunks[i].chunk_index = index_file.chunks[j].chunk_index
    /\ Cardinality(DOMAIN emb_dir) = 2

(***************************************************************************)
(* One GeologicalSearchEngine over the index file the builders write.      *)
(*                                                                         *)
(* The chunks directory holds one document; the embedding creators and     *)
(* the engine run in any order, one call at a time.                        *)
(***************************************************************************)

\* The engine object a constructor call returns.
Engine == [class |-> "GeologicalSearchEngine"]

\* GeologicalSearchEngine(): index_data and model start as None, and
\* load_index runs when the index file exists.  When load_index raises, the
\* constructor raises and the caller keeps the engine it had.
Construct ==
    /\ Idle
    /\ call' = [op |-> "__init__"]
    /\ IF index_file = None
       THEN /\ index_data' = None
            /\ model' = None
            /\ loaded' = None
            /\ ret' = Returned(Engine)
       ELSE \E o \in LoadIndexOutcomes(index_file, None, None) :
              IF o.ret.kind = "return"
              THEN /\ index_data' = o.index_data
                   /\ model' = o.model
                   /\ loaded' = index_file
                   /\ ret' = Returned(Engine)
              ELSE /\ ret' = o.ret
                   /\ UNCHANGED <<index_data, model, loaded>>
    /\ UNCHANGED <<index_file, chunkVars, ragVars, batchVars, dirVars>>

\* The state after GeologicalSearchEngine() in a project whose documents
\* are chunked and not yet embedded: there is no index file.
EngineInit ==
    /\ NoChunking
    /\ NoRag
    /\ NoBatch
    /\ \E count \in 1..MaxDocChunks :
          chunk_dir = Put(EmptyDir, ChunksFileName(<<"a">>), ChunksFileOf(<<"a">>, count))
    /\ emb_dir = EmptyDir
    /\ index_file = None
    /\ index_data = None
    /\ model = None
    /\ loaded = None
    /\ call = None
    /\ ret = None

EngineNext ==
    \/ Construct
    \/ LoadIndex
    \/ BuildIndex
    \/ Search
    \/ EmbeddingsProcessAllChunks
    \/ SimpleProcessAllChunks
    \/ CallReturns

EngineSpec == EngineInit /\ [][EngineNext]_vars

(***************************************************************************)
(* Properties of the engine's life cycle.                                  *)
(***************************************************************************)

\* C12 (engine state): whenever search returns results, the model the
\* engine holds is the model that the model_name of the snapshot it holds
\* names.
C12_ModelMatchesSnapshot ==
    (Called("search") /\ ret.kind = "return" /\ ret.value # <<>>)
        => model.name = index_data.model_name

\* C13 (model_name names the producer): in every snapshot the index
\* builders write, every vector was produced by the embedding function that
\* the snapshot's model_name names.
C13_ModelNameNamesProducer ==
    index_file # None =>
        \A i \in 1..Len(index_file.embeddings) :
            index_file.embeddings[i].by = index_file.model_name

(***************************************************************************)
(* GeologicalRAGSystem.create_context_from_chunks                          *)
(*                                                                         *)
(* Strings are sequences of characters.  The two Russian words of the      *)
(* label are written in Latin letters, one letter for one letter, so       *)
(* that every length is the length the code computes.                      *)
(***************************************************************************)

MaxParts == 3
MaxBudget == 30
DEFAULT_MAX_TOKENS == 6000

\* A text of n characters.
Rep(n) == [i \in 1..n |-> "x"]

\* f"\n--- <Document> {filename}, <fragment> {chunk_index} ---\n{text}\n"
ChunkText(chunk) ==
    <<Newline, "-", "-", "-", Space, "D", "o", "k", "u", "m", "e", "n", "t", Space>>
    \o chunk.filename
    \o <<",", Space, "f", "r", "a", "g", "m", "e", "n", "t", Space>>
    \o Digits(chunk.chunk_index)
    \o <<Space, "-", "-", "-", Newline>>
    \o chunk.text
    \o <<Newline>>

\* len(chunk_text) // 4
EstimatedTokens(chunk_text) == Len(chunk_text) \div 4

\* The loop with `continue` in the place of `break`: a chunk that does not
\* fit is skipped and later chunks are still tried.
RECURSIVE ContextPartsSkipping(_, _, _, _)
ContextPartsSkipping(chunks_left, max_tokens, context_parts, current_length) ==
    IF chunks_left = <<>> THEN context_parts
    ELSE LET chunk_text == ChunkText(Head(chunks_left))
             estimated_tokens == EstimatedTokens(chunk_text)
         IN  IF current_length + estimated_tokens > max_tokens
             THEN ContextPartsSkipping(Tail(chunks_left), max_tokens,
                                       context_parts, current_length)
             ELSE ContextPartsSkipping(Tail(chunks_left), max_tokens,
                                       Append(context_parts, chunk_text),
                                       current_length + estimated_tokens)

\* The loop of create_context_from_chunks from the chunks still to visit,
\* with the locals context_parts and current_length: context_parts at the
\* end of the loop.
RECURSIVE ContextParts(_, _, _, _)
ContextParts(chunks_left, max_tokens, context_parts, current_length) ==
    IF chunks_left = <<>> THEN context_parts
    ELSE LET chunk_text == ChunkText(Head(chunks_left))
             estimated_tokens == EstimatedTokens(chunk_text)
         IN  IF current_length + estimated_tokens > max_tokens
             THEN context_parts
             ELSE ContextParts(Tail(chunks_left), max_tokens,
                               Append(context_parts, chunk_text),
                               current_length + estimated_tokens)

\* sep.join(parts)
RECURSIVE Join(_, _)
Join(sep, parts) ==
    IF parts = <<>> THEN <<>>
    ELSE IF Len(parts) = 1 THEN parts[1]
    ELSE parts[1] \o sep \o Join(sep, Tail(parts))

\* create_context_from_chunks(chunks, max_tokens)
CreateContextFromChunks(chunk_list, max_tokens) ==
    Join(<<Newline>>, ContextParts(chunk_list, max_tokens, <<>>, 0))

\* The chunks a caller passes: short and long texts, one- and two-digit
\* chunk indexes.
ContextChunks ==
    {[filename |-> <<"a">>, chunk_index |-> 0, text |-> Rep(0)],
     [filename |-> <<"a">>, chunk_index |-> 1, text |-> Rep(3)],
     [filename |-> <<"b", "b">>, chunk_index |-> 12, text |-> Rep(14)]}

\* create_context_from_chunks(chunks, max_tokens) is called and returns.
CreateContext ==
    /\ Idle
    /\ \E chunk_list \in SeqsUpTo(ContextChunks, MaxParts), max_tokens \in 0..MaxBudget :
          /\ call' = [op |-> "create_context_from_chunks",
                      chunks |-> chunk_list, max_tokens |-> max_tokens]
          /\ ret' = Returned(CreateContextFromChunks(chunk_list, max_tokens))
    /\ UNCHANGED <<index_file, index_data, model, loaded>>
    /\ UNCHANGED <<chunkVars, ragVars, batchVars, dirVars>>

ContextInit ==
    /\ NoChunking
    /\ NoRag
    /\ NoBatch
    /\ NoEngine

ContextNext == CreateContext \/ CallReturns

ContextSpec == ContextInit /\ [][ContextNext]_vars

(***************************************************************************)
(* Properties of create_context_from_chunks.                               *)
(***************************************************************************)

\* The estimated cost of the first k chunks of a list.
CostOfFirst(chunk_list, k) ==
    Sum([i \in 1..k |-> EstimatedTokens(ChunkText(chunk_list[i]))])

\* C14 (context budget): the context returned is the labelled texts of the
\* first k chunks of the list, whole and in order, for the k at which the
\* loop stops: the cost of the first k chunks is within max_tokens, and k is
\* the whole list or chunk k + 1 would push the total over max_tokens.
C14_ContextIsBudgetedPrefix ==
    Called("create_context_from_chunks") =>
        \E k \in 0..Len(call.chunks) :
            /\ ret.value = Join(<<Newline>>, [i \in 1..k |-> ChunkText(call.chunks[i])])
            /\ CostOfFirst(call.chunks, k) <= call.max_tokens
            /\ k < Len(call.chunks) =>
                  CostOfFirst(call.chunks, k + 1) > call.max_tokens

\* A list whose second chunk does not fit while its third would, and the
\* context holds the first chunk alone.
C14_Witness ==
    /\ Called("create_context_from_chunks")
    /\ Len(call.chunks) = 3
    /\ ret.value = ChunkText(call.chunks[1])
    /\ CostOfFirst(call.chunks, 2) > call.max_tokens
    /\ CostOfFirst(call.chunks, 1)
         + EstimatedTokens(ChunkText(call.chunks[3])) <= call.max_tokens

(***************************************************************************)
(* GeologicalRAGSystem.ask_question                                        *)
(*                                                                         *)
(* A similarity is counted in units of 1/10000.  A message is a sequence   *)
(* of pieces of text, the empty message the empty sequence; the Russian    *)
(* texts of the code are written in Latin letters.                         *)
(***************************************************************************)

MaxRagChunks == 3
DEFAULT_MIN_SIMILARITY == 100
HIGH_SIMILARITY == 3000
MEDIUM_SIMILARITY == 1000

CONFIDENCE_HIGH == "vysokaya"
CONFIDENCE_MEDIUM == "srednyaya"
CONFIDENCE_LOW == "nizkaya"
CONFIDENCE_ERROR == "oshibka"

NOT_FOUND_ANSWER == <<"K sozhaleniyu, ya ne nashel relevantnoy informatsii">>
FAILURE_PREFIX == <<"Proizoshla oshibka pri obrabotke voprosa: ">>
API_ERROR_PREFIX == <<"Oshibka pri obrashchenii k OpenAI API: ">>
INDEX_NOT_LOADED == <<"Indeks ne zagruzhen">>
NONE_HAS_NO_STRIP == <<"'NoneType' object has no attribute 'strip'">>

\* A Python str.
Str(s) == [class |-> "str", value |-> s]

Questions == {"q"}
RagThresholds == {DEFAULT_MIN_SIMILARITY, -10000}
RagSimilarities == {-500, 1000, 1001, 2996, 3000, 3004, 9000}

\* A text whose labelled part has the estimated cost max_tokens exactly: it
\* fits the context alone and with nothing else.
LongText == Rep(4 * DEFAULT_MAX_TOKENS - 33)

\* The chunks of the loaded index that a search can return.
RagChunks ==
    {[file_id |-> <<"a">>, filename |-> <<"a">>, chunk_id |-> ChunkId(<<"a">>, 0),
      chunk_index |-> 0, text |-> Rep(2)],
     [file_id |-> <<"a">>, filename |-> <<"a">>, chunk_id |-> ChunkId(<<"a">>, 1),
      chunk_index |-> 1, text |-> LongText],
     [file_id |-> <<"b">>, filename |-> <<"b">>, chunk_id |-> ChunkId(<<"b">>, 0),
      chunk_index |-> 0, text |-> Rep(1)]}

\* A chunk as search returns it.
RagResult(chunk, similarity, rank) ==
    [file_id |-> chunk.file_id, filename |-> chunk.filename,
     chunk_id |-> chunk.chunk_id, chunk_index |-> chunk.chunk_index,
     text |-> chunk.text, similarity |-> similarity, rank |-> rank]

\* The lists search(question, top_k, min_similarity) returns on a loaded
\* engine: at most top_k distinct chunks, similarity non-increasing and at
\* least min_similarity, rank counting from 1.
RagResultLists(top_k, min_similarity) ==
    UNION {
        {[i \in 1..n |-> RagResult(cs[i], ss[i], i)] :
            <<cs, ss>> \in
                {c \in [1..n -> RagChunks] :
                    \A i, j \in 1..n : i # j => c[i] # c[j]}
                \X
                {sm \in [1..n -> {v \in RagSimilarities : v >= min_similarity}] :
                    \A i \in 1..(n - 1) : sm[i] >= sm[i + 1]}}
        : n \in 0..Min(top_k, Cardinality(RagChunks))}

\* self.search_engine.search(...) as ask_question sees it: an engine
\* without index data raises ValueError.
RagSearchOutcomes(data, mdl, top_k, min_similarity) ==
    IF data = None \/ mdl = None
    THEN {Raised(INDEX_NOT_LOADED)}
    ELSE {Returned(r) : r \in RagResultLists(top_k, min_similarity)}

\* What the chat completion call gives: a response whose message content
\* is a text or None, or an exception with any message.
GeneratorOutcomes ==
    {Returned(Str(<<"a">>)), Returned(Str(<<Space, "a", Newline>>)), Returned(None),
     Raised(<<>>), Raised(<<"timeout">>)}

\* The generator is asked whatever search returned.
AlwaysGenerates(results) == TRUE

\* `if not search_results: return ...` is passed with a non-empty list.
NeedsGenerator(results) == results # <<>>

\* The message as the exception carries it.
BareApiError(message) == message

\* Exception(f"<prefix>{api_error}")
ApiError(message) == API_ERROR_PREFIX \o message

\* round(similarity, 3): the nearest multiple of 0.001, a tie going to the
\* even one.
Round3(similarity) ==
    LET q == similarity \div 10
        r == similarity % 10
    IN  IF r < 5 THEN 10 * q
        ELSE IF r > 5 THEN 10 * (q + 1)
        ELSE IF q % 2 = 0 THEN 10 * q ELSE 10 * (q + 1)

\* sources: one entry per search result
Sources(results) ==
    [i \in 1..Len(results) |->
        [filename |-> results[i].filename,
         chunk_id |-> results[i].chunk_id,
         similarity |-> Round3(results[i].similarity)]]

\* The label of the best result's similarity.
ConfidenceOfBest(results) ==
    LET best == results[1].similarity
    IN  IF best > HIGH_SIMILARITY THEN CONFIDENCE_HIGH
        ELSE IF best > MEDIUM_SIMILARITY THEN CONFIDENCE_MEDIUM
        ELSE CONFIDENCE_LOW

\* avg_similarity = sum(...) / len(search_results), and its label
Confidence(results) ==
    LET avg_similarity == Mean([i \in 1..Len(results) |-> results[i].similarity])
    IN  IF avg_similarity.sum > HIGH_SIMILARITY * avg_similarity.count
        THEN CONFIDENCE_HIGH
        ELSE IF avg_similarity.sum > MEDIUM_SIMILARITY * avg_similarity.count
        THEN CONFIDENCE_MEDIUM
        ELSE CONFIDENCE_LOW

NotFoundResponse(question) ==
    [question |-> question, answer |-> Str(NOT_FOUND_ANSWER), sources |-> <<>>,
     confidence |-> CONFIDENCE_LOW, error |-> None]

SuccessResponse(question, answer, results) ==
    [question |-> question, answer |-> Str(answer), sources |-> Sources(results),
     confidence |-> Confidence(results), chunks_used |-> Len(results),
     error |-> None]

\* The response of the outer `except Exception as e`, with str(e) as given.
FailureResponse(question, message) ==
    [question |-> question, answer |-> Str(FAILURE_PREFIX \o message),
     sources |-> <<>>, confidence |-> CONFIDENCE_ERROR, error |-> Str(message)]

\* ask_question(question, max_chunks, min_similarity) is called.
AskQuestion ==
    /\ Idle
    /\ rag_pc = "idle"
    /\ \E question \in Questions, max_chunks \in 1..MaxRagChunks,
          min_similarity \in RagThresholds :
          call' = [op |-> "ask_question", question |-> question,
                   max_chunks |-> max_chunks, min_similarity |-> min_similarity]
    /\ ret' = None
    /\ rag_pc' = "search"
    /\ search_results' = None
    /\ requests' = <<>>
    /\ UNCHANGED <<index_file, index_data, model, loaded>>
    /\ UNCHANGED <<chunkVars, batchVars, dirVars>>

\* Step 1: the search; an exception and an empty list end the call.
AskSearch ==
    /\ rag_pc = "search"
    /\ \E out \in RagSearchOutcomes(index_data, model, call.max_chunks,
                                    call.min_similarity) :
          /\ search_results' = out
          /\ IF out.kind = "raise"
             THEN /\ ret' = Returned(FailureResponse(call.question, out.error))
                  /\ rag_pc' = "idle"
             ELSE IF NeedsGenerator(out.value)
             THEN /\ ret' = None
                  /\ rag_pc' = "generate"
             ELSE /\ ret' = Returned(NotFoundResponse(call.question))
                  /\ rag_pc' = "idle"
    /\ UNCHANGED <<index_file, index_data, model, loaded, call, requests>>
    /\ UNCHANGED <<chunkVars, batchVars, dirVars>>

\* Steps 2 to 5: the context and the prompt, the one generator call, and
\* the response; an exception of the call is raised again with the prefix
\* and ends in the outer handler.
AskGenerate ==
    /\ rag_pc = "generate"
    /\ LET results == search_results.value
           context == CreateContextFromChunks(results, DEFAULT_MAX_TOKENS)
           user_prompt == [context |-> context, question |-> call.question]
       IN  \E out \in GeneratorOutcomes :
              /\ requests' = Append(requests, [prompt |-> user_prompt, outcome |-> out])
              /\ ret' = Returned(
                    IF out.kind = "raise"
                    THEN FailureResponse(call.question, ApiError(out.error))
                    ELSE IF out.value = None
                    THEN FailureResponse(call.question, ApiError(NONE_HAS_NO_STRIP))
                    ELSE SuccessResponse(call.question, Strip(out.value.value), results))
    /\ rag_pc' = "idle"
    /\ UNCHANGED <<index_file, index_data, model, loaded, call, search_results>>
    /\ UNCHANGED <<chunkVars, batchVars, dirVars>>

\* The index ask_question searches when there is one: one document of two
\* chunks, embedded by the configured model.
RagIndex ==
    IndexData(EMBEDDING_MODEL, CreateEmbeddingsForChunks(ChunksFileOf(<<"a">>, 2)))

\* The state after GeologicalRAGSystem(): its engine was constructed with
\* or without an index file.
RagInit ==
    /\ NoChunking
    /\ NoRag
    /\ NoBatch
    /\ chunk_dir = EmptyDir
    /\ emb_dir = EmptyDir
    /\ index_file \in {None, RagIndex}
    /\ index_data = index_file
    /\ loaded = index_file
    /\ model = IF index_file = None THEN None
               ELSE SentenceTransformer(index_file.model_name)
    /\ call = None
    /\ ret = None

RagNext ==
    \/ AskQuestion
    \/ AskSearch
    \/ AskGenerate
    \/ CallReturns

RagSpec == RagInit /\ [][RagNext]_vars

(***************************************************************************)
(* Properties of ask_question.                                             *)
(***************************************************************************)

\* ask_question has returned or raised.
Answered == Called("ask_question") /\ ret # None

\* C15 (not found, one generator call): after a search that returned no
\* result the response is the fixed not-found response (empty sources,
\* confidence "nizkaya", error None) and the generator was not called; in
\* every run the generator is called at most once, and only after a search
\* that returned at least one result.
C15_GeneratorOnlyAfterResults ==
    /\ Len(requests) <= 1
    /\ requests # <<>> =>
          /\ search_results # None
          /\ search_results.kind = "return"
          /\ Len(search_results.value) >= 1
    /\ (Answered /\ search_results = Returned(<<>>)) =>
          /\ ret = Returned(NotFoundResponse(call.question))
          /\ ret.value.sources = <<>>
          /\ ret.value.confidence = CONFIDENCE_LOW
          /\ ret.value.error = None
          /\ requests = <<>>

C15_Witness == Answered /\ search_results = Returned(<<>>)

\* The generator was called and returned a text.
Succeeded ==
    /\ Answered
    /\ requests # <<>>
    /\ requests[1].outcome.kind = "return"
    /\ requests[1].outcome.value # None

\* C16 (confidence and sources): on a successful answer the label is
\* "vysokaya" when the mean similarity of the results is above 0.3,
\* "srednyaya" when it is above 0.1 and at most 0.3, "nizkaya" when it is
\* at most 0.1; sources has one entry per result, in rank order, with the
\* result's filename and chunk_id and its similarity at the nearest 0.001.
C16_ConfidenceAndSources ==
    Succeeded =>
        LET results == search_results.value
            n == Len(results)
            total == Sum([i \in 1..n |-> results[i].similarity])
            response == ret.value
        IN  /\ response.confidence =
                  IF total > 3000 * n THEN CONFIDENCE_HIGH
                  ELSE IF total > 1000 * n THEN CONFIDENCE_MEDIUM
                  ELSE CONFIDENCE_LOW
            /\ Len(response.sources) = n
            /\ \A i \in 1..n :
                  /\ results[i].rank = i
                  /\ response.sources[i].filename = results[i].filename
                  /\ response.sources[i].chunk_id = results[i].chunk_id
                  /\ response.sources[i].similarity % 10 = 0
                  /\ response.sources[i].similarity - results[i].similarity \in (-5)..5

\* The best result alone would give "vysokaya" and the mean gives
\* "srednyaya"; the similarity 0.2996 is reported as 0.3.
C16_Witness ==
    /\ Succeeded
    /\ Len(search_results.value) = 3
    /\ search_results.value[1].similarity = 3004
    /\ search_results.value[2].similarity = 2996
    /\ search_results.value[3].similarity = 1000
    /\ ret.value.confidence = CONFIDENCE_MEDIUM
    /\ ret.value.sources[2].similarity = 3000

\* The search step or the generator call failed.
Failed ==
    /\ Answered
    /\ \/ search_results.kind = "raise"
       \/ /\ requests # <<>>
          /\ \/ requests[1].outcome.kind = "raise"
             \/ requests[1].outcome.value = None

MaxEntries == 2
MaxRuns == 2
BatchSizes == {1, 2}

\* ArchiveProcessor._get_archive_id of the one archive.
ArchiveId == <<"arch">>

\* Path(original_name).stem: the name without its extension.
Stem(original_name) == SubSeq(original_name, 1, Len(original_name) - 1)

\* f"{archive_id}_{counter:04d}_{base_name}"
GenerateUniqueFileId(archive_id, original_name, counter) ==
    archive_id \o <<"_">> \o ZeroPad(Digits(counter), 4) \o <<"_">> \o Stem(original_name)

\* The TIFF entries of an archive: each can be read or is corrupt.
TiffEntries ==
    {[name |-> <<"s", ".tif">>, corrupt |-> c] : c \in BOOLEAN}

\* extract_tiff_files: the file_info list of the entries that could be
\* extracted; the counter counts every TIFF entry, and a corrupt entry is
\* logged and passed over.
ExtractTiffFiles(archive_id, tiff_files) ==
    LET info(counter) ==
            [unique_id |-> GenerateUniqueFileId(archive_id, tiff_files[counter].name, counter),
             original_name |-> tiff_files[counter].name,
             archive_id |-> archive_id,
             entry |-> counter]
        readable == SelectSeq([c \in 1..Len(tiff_files) |-> c],
                              LAMBDA c : ~tiff_files[c].corrupt)
    IN  [k \in 1..Len(readable) |-> info(readable[k])]

\* The unique_ids of a file_info list.
UniqueIds(files) == {files[k].unique_id : k \in 1..Len(files)}

\* process_all_archives over the one archive: the metadata and the
\* extracted TIFF files are written.
ProcessAllArchives ==
    /\ Idle
    /\ all_files = <<>>
    /\ ocr = None
    /\ \E tiff_files \in UNION {[1..n -> TiffEntries] : n \in 1..MaxEntries} :
          /\ call' = [op |-> "process_all_archives", tiff_files |-> tiff_files]
          /\ all_files' = ExtractTiffFiles(ArchiveId, tiff_files)
          /\ tiff_dir' = UniqueIds(all_files')
          /\ ret' = Returned([total_files |-> Len(all_files')])
    /\ UNCHANGED <<text_dir, ocr, pipeline>>
    /\ UNCHANGED <<index_file, index_data, model, loaded>>
    /\ UNCHANGED <<chunkVars, ragVars, dirVars>>

\* No OCR batch is under way.
NoRun == IF ocr = None THEN TRUE ELSE ocr.pc = "done"

\* The stages run in the order of the pipeline: the OCR runs come before
\* the chunking of their outputs.
NotChunkedYet == chunk_dir = EmptyDir

\* An extracted TIFF file is removed while the metadata still lists it.
TiffLost ==
    /\ Idle
    /\ NoRun
    /\ NotChunkedYet
    /\ \E unique_id \in tiff_dir : tiff_dir' = tiff_dir \ {unique_id}
    /\ UNCHANGED <<all_files, text_dir, ocr, pipeline>>
    /\ UNCHANGED <<engineVars, chunkVars, ragVars, dirVars>>

\* Nothing counts as processed at the start of the run.
NoProcessedFiles(resume_from, output_dir) == {}

\* processed_files at the start of the run: with resume_from, the names
\* of the .json files of the output directory without the extension.
ProcessedFiles(resume_from, output_dir) ==
    IF resume_from THEN DOMAIN output_dir ELSE {}

\* The JSON file process_tiff_file writes for a file in a run; a write
\* that fails part way leaves a file that is not JSON.
OutputFile(unique_id, run, complete) ==
    [file_id |-> unique_id, filename |-> Append(unique_id, ".tiff"),
     unique_id |-> unique_id, written_in_run |-> run, json |-> complete]

\* process_extracted_files(batch_size, resume_from) is called: the code
\* before the loop.  Without a listed file it returns [].
ProcessExtractedFiles ==
    /\ Idle
    /\ NoRun
    /\ NotChunkedYet
    /\ IF ocr = None THEN TRUE ELSE ocr.run < MaxRuns
    /\ \E batch_size \in BatchSizes, resume_from \in BOOLEAN :
          ocr' = [pc |-> IF all_files = <<>> THEN "done" ELSE "loop",
                  run |-> IF ocr = None THEN 1 ELSE ocr.run + 1,
                  batch_size |-> batch_size,
                  resume_from |-> resume_from,
                  i |-> 0,
                  j |-> 0,
                  processed_files |->
                      IF all_files = <<>> THEN {}
                      ELSE ProcessedFiles(resume_from, text_dir),
                  results |-> <<>>,
                  failed_files |-> <<>>,
                  existing |-> text_dir,
                  attempts |-> <<>>]
    /\ UNCHANGED <<all_files, tiff_dir, text_dir, pipeline>>
    /\ UNCHANGED <<engineVars, chunkVars, ragVars, dirVars>>

\* The loop position after the file at batch start i, offset j: the next
\* file of the batch, or the first of the next batch, or the end.
NextFile(run) ==
    LET total_files == Len(all_files)
        batch_len == Min(run.batch_size, total_files - run.i)
    IN  IF run.j + 1 < batch_len
        THEN [run EXCEPT !.j = run.j + 1]
        ELSE IF run.i + run.batch_size < total_files
        THEN [run EXCEPT !.i = run.i + run.batch_size, !.j = 0]
        ELSE [run EXCEPT !.pc = "done"]

\* One iteration of the inner loop: the file is skipped, or recorded as
\* failed because its TIFF is missing, or handed to process_tiff_file,
\* which writes its output, or raises before the output file is opened,
\* or raises while writing it.
ProcessExtractedFilesIterate ==
    /\ ocr # None
    /\ ocr.pc = "loop"
    /\ LET file_info == all_files[ocr.i + ocr.j + 1]
           unique_id == file_info.unique_id
       IN  IF unique_id \in ocr.processed_files
           THEN /\ ocr' = NextFile(ocr)
                /\ UNCHANGED text_dir
           ELSE IF unique_id \notin tiff_dir
           THEN /\ ocr' = NextFile([ocr EXCEPT
                                      !.failed_files = Append(@, unique_id)])
                /\ UNCHANGED text_dir
           ELSE \E outcome \in {"written", "open raises", "write raises"} :
                  LET tried == [ocr EXCEPT !.attempts = Append(@, unique_id)]
                  IN  IF outcome = "written"
                      THEN /\ text_dir' = Put(text_dir, unique_id,
                                              OutputFile(unique_id, ocr.run, TRUE))
                           /\ ocr' = NextFile([tried EXCEPT
                                  !.results = Append(@, unique_id),
                                  !.processed_files = @ \cup {unique_id}])
                      ELSE /\ text_dir' =
                                 IF outcome = "open raises" THEN text_dir
                                 ELSE Put(text_dir, unique_id,
                                          OutputFile(unique_id, ocr.run, FALSE))
                           /\ ocr' = NextFile([tried EXCEPT
                                  !.failed_files = Append(@, unique_id)])
    /\ UNCHANGED <<all_files, tiff_dir, pipeline>>
    /\ UNCHANGED <<engineVars, chunkVars, ragVars, dirVars>>

\* The chunks files process_all_extracted_texts writes for the files of
\* the listing, in order, up to the first file json.load cannot read.
RECURSIVE ChunkWrites(_, _)
ChunkWrites(input_dir, json_files) ==
    IF json_files = <<>> \/ ~input_dir[Head(json_files)].json THEN <<>>
    ELSE LET file_id == input_dir[Head(json_files)].file_id
         IN  <<[name |-> ChunksFileName(file_id),
                content |-> ChunksFileOf(file_id, 1)]>>
             \o ChunkWrites(input_dir, Tail(json_files))

\* process_all_extracted_texts: every .json file of the directory goes
\* through process_extracted_text_file, in listing order; an exception of
\* that call ends the run.
ProcessAllExtractedTexts ==
    /\ Idle
    /\ NoRun
    /\ DOMAIN text_dir # {}
    /\ \E json_files \in ListDir(text_dir) :
          LET writes == ChunkWrites(text_dir, json_files)
          IN  /\ call' = [op |-> "process_all_extracted_texts",
                          json_files |-> json_files]
              /\ chunk_dir' = WriteFiles(chunk_dir, writes)
              /\ ret' = IF Len(writes) < Len(json_files)
                        THEN Raised("JSONDecodeError")
                        ELSE Returned([k \in 1..Len(writes) |->
                                          [file_id |-> text_dir[json_files[k]].file_id,
                                           chunks_count |-> 1]])
    /\ UNCHANGED <<emb_dir, index_file, index_data, model, loaded>>
    /\ UNCHANGED <<chunkVars, ragVars, batchVars>>

BatchInit ==
    /\ NoChunking
    /\ NoRag
    /\ NoBatch
    /\ NoEngine

BatchNext ==
    \/ ProcessAllArchives
    \/ TiffLost
    \/ ProcessExtractedFiles
    \/ ProcessExtractedFilesIterate
    \/ ProcessAllExtractedTexts
    \/ CallReturns

BatchSpec == BatchInit /\ [][BatchNext]_vars

(***************************************************************************)
(* Properties of the batch stages.                                         *)
(***************************************************************************)

\* The unique_ids of the listed files the loop of the run has visited.
Visited(run) ==
    IF run.pc = "done" THEN UniqueIds(all_files)
    ELSE {all_files[k].unique_id : k \in 1..(run.i + run.j)}

\* The elements of a list.
Elements(seq) == {seq[k] : k \in 1..Len(seq)}

C19_BatchContinues ==
    /\ Called("process_all_archives") =>
          Len(all_files) = Cardinality({c \in 1..Len(call.tiff_files) :
                                          ~call.tiff_files[c].corrupt})
    /\ (ocr # None /\ ocr.pc = "done") =>
          UniqueIds(all_files) \subseteq
              (ocr.processed_files \cup Elements(ocr.failed_files))
    /\ Called("process_all_extracted_texts") =>
          /\ ret.kind = "return"
          /\ \A name \in DOMAIN text_dir :
                text_dir[name].json =>
                    ChunksFileName(text_dir[name].file_id) \in DOMAIN chunk_dir

(***************************************************************************)
(* Construction without an index file.                                     *)
(***************************************************************************)

\* C20 (missing index fails fast): GeologicalSearchEngine() raises when
\* the index file does not exist; it does not return an engine.
C20_MissingIndexFailsFast ==
    (Called("__init__") /\ index_file = None) => ret.kind = "raise"

(***************************************************************************)
(* Properties of the index builders when nothing is embedded.              *)
(***************************************************************************)

\* C21 (empty index): no entry point of the index builder persists a
\* snapshot with zero chunks; building the index when no embedded chunks
\* exist leaves the index file as it was.
C21_NoEmptySnapshot ==
    index_file # None => index_file.chunks # <<>>

(***************************************************************************)
(* get_chunk_context on a loaded engine, called any number of times.       *)
(***************************************************************************)

WindowNext == GetChunkContext \/ CallReturns

WindowSpec == SearchInit /\ [][WindowNext]_vars

\* The positions of the index whose chunk carries the chunk_id.
PositionsOf(chunk_id) ==
    {i \in 1..Len(index_data.chunks) : index_data.chunks[i].chunk_id = chunk_id}

\* C22 (context window): get_chunk_context(chunk_id, context_size) with
\* context_size >= 0 returns, for an indexed chunk_id, chunks of the
\* target's document only, in increasing chunk_index order with no chunk of
\* the document left out between two of them, with min(context_size, chunks
\* before the target) chunks before the target and min(context_size, chunks
\* after it) after it; the target is the one returned chunk whose is_target
\* is true; for a chunk_id that is not indexed it returns the empty list.
C22_ContextWindow ==
    (Called("get_chunk_context") /\ index_data # None)
        => /\ ret.kind = "return"
           /\ IF PositionsOf(call.chunk_id) = {}
              THEN ret.value = <<>>
              ELSE LET t == index_data.chunks[CHOOSE i \in PositionsOf(call.chunk_id) : TRUE]
                       doc == {i \in 1..Len(index_data.chunks) :
                                  index_data.chunks[i].file_id = t.file_id}
                       before == Cardinality({i \in doc :
                                    index_data.chunks[i].chunk_index < t.chunk_index})
                       after == Cardinality({i \in doc :
                                    index_data.chunks[i].chunk_index > t.chunk_index})
                       r == ret.value
                       at == Min(call.context_size, before) + 1
                   IN  /\ Len(r) = at + Min(call.context_size, after)
                       /\ \A k \in 1..Len(r) :
                             /\ r[k].file_id = t.file_id
                             /\ \E i \in doc : index_data.chunks[i] = r[k]
                             /\ r[k].is_target <=> k = at
                       /\ \A k \in 1..(Len(r) - 1) :
                             /\ r[k].chunk_index < r[k + 1].chunk_index
                             /\ ~\E i \in doc :
                                   /\ r[k].chunk_index < index_data.chunks[i].chunk_index
                                   /\ index_data.chunks[i].chunk_index < r[k + 1].chunk_index
                       /\ r[at].chunk_id = call.chunk_id

\* The window around the first chunk of a document of two chunks has been
\* returned, clipped at the start of the document, from an index that holds
\* another document as well and carries the flags of an earlier call.
C22_Witness ==
    /\ Called("get_chunk_context")
    /\ index_data # None
    /\ call.context_size = 1
    /\ ret.kind = "return"
    /\ Len(ret.value) = 2
    /\ ret.value[1].is_target
    /\ ~ret.value[2].is_target
    /\ \E i \in 1..Len(index_data.chunks) :
          /\ index_data.chunks[i].file_id # ret.value[1].file_id
          /\ "is_target" \in DOMAIN index_data.chunks[i]

(***************************************************************************)
(* search_with_details on a loaded engine.                                 *)
(***************************************************************************)

DetailsNext == SearchWithDetails \/ CallReturns

DetailsSpec == SearchInit /\ [][DetailsNext]_vars

\* C23 (details do not change ranking): the results of search_with_details
\* are a list search(query, top_k) returns on the same snapshot;
\* total_results is its length; the groups of files_found are the results
\* of each file_id, every result in exactly one group, by increasing rank;
\* files_count is the number of file_ids among the results; max_similarity
\* is the similarity of the result of rank 1; and without results all
\* statistics are 0.
C23_DetailsKeepRanking ==
    (Called("search_with_details") /\ ret.kind = "return")
        => LET d == ret.value
               r == d.results
               ids == {r[i].file_id : i \in 1..Len(r)}
           IN  /\ Returned(r) \in SearchOutcomes(index_data, model, call.query,
                                                 call.top_k, 0)
               /\ d.total_results = Len(r)
               /\ DOMAIN d.files_found = ids
               /\ \A f \in ids :
                     LET g == d.files_found[f]
                     IN  /\ g # <<>>
                         /\ \A k \in 1..Len(g) :
                               /\ g[k].file_id = f
                               /\ \E i \in 1..Len(r) : r[i] = g[k]
                         /\ \A k \in 1..(Len(g) - 1) : g[k].rank < g[k + 1].rank
               /\ \A i \in 1..Len(r) :
                     \E k \in 1..Len(d.files_found[r[i].file_id]) :
                         d.files_found[r[i].file_id][k] = r[i]
               /\ d.stats.files_count = Cardinality(ids)
               /\ r # <<>> => /\ r[1].rank = 1
                              /\ d.stats.max_similarity = r[1].similarity
                              /\ d.stats.average_similarity =
                                    Mean([i \in 1..Len(r) |-> r[i].similarity])
               /\ r = <<>> => /\ d.stats.average_similarity = 0
                              /\ d.stats.max_similarity = 0
                              /\ d.stats.files_count = 0

\* search_with_details has returned two results of different similarity
\* from two documents.
C23_Witness ==
    /\ Called("search_with_details")
    /\ ret.kind = "return"
    /\ Len(ret.value.results) = 2
    /\ ret.value.results[1].similarity > ret.value.results[2].similarity
    /\ ret.value.stats.files_count = 2

(***************************************************************************)
(* Further properties of split_text_into_chunks.                           *)
(***************************************************************************)

\* C24 (progress under a misconfigured overlap): also when
\* overlap >= chunk_size, every pass through the chunking loop starts to the
\* right of the pass before it, as does the pass about to run, so the loop
\* ends on every text longer than chunk_size.
C24_ProgressWithLargeOverlap ==
    (overlap >= chunk_size /\ ~FitsOneChunk(text, chunk_size))
        => /\ \A i \in 1..(Len(ranges) - 1) : ranges[i + 1].start > ranges[i].start
           /\ (pc = "loop" /\ ranges # <<>>) => start > ranges[Len(ranges)].start

BreakChars == {Space, Newline, Period}

\* The positions p of text t with s < p < e that hold a break character.
BreakPositions(t, s, e) ==
    {p \in 0..(Len(t) - 1) : s < p /\ p < e /\ t[p + 1] \in BreakChars}

TrimmedRange(r) ==
    LET keep == {p \in r.start..(r.end - 1) : text[p + 1] \notin Whitespace}
    IN  [start |-> CHOOSE p \in keep : \A q \in keep : p <= q,
         end |-> (CHOOSE p \in keep : \A q \in keep : q <= p) + 1]

\* C26 (returned chunks): for every text and every chunk_size >= 1, every
\* chunk returned is a contiguous substring of the text of at most
\* chunk_size characters; for a text longer than chunk_size there is one
\* chunk per pass that found something, the chunks are returned in the
\* order of their passes, which start at increasing positions, no chunk
\* beginning or ending before the chunk returned before it, and each is
\* non-empty and neither begins nor ends with whitespace.
C26_ReturnedChunks ==
    pc = "done"
        => /\ \A k \in 1..Len(chunks) :
                 /\ Len(chunks[k]) <= chunk_size
                 /\ \E a \in 0..Len(text) : \E b \in a..Len(text) :
                       chunks[k] = Slice(text, a, b)
           /\ ~FitsOneChunk(text, chunk_size)
                 => /\ Len(chunks) = Len(EmittedRanges)
                    /\ \A k \in 1..Len(chunks) :
                          LET at == TrimmedRange(EmittedRanges[k])
                          IN  /\ chunks[k] = Slice(text, at.start, at.end)
                              /\ chunks[k] # <<>>
                              /\ chunks[k][1] \notin Whitespace
                              /\ chunks[k][Len(chunks[k])] \notin Whitespace
                    /\ \A k \in 1..(Len(chunks) - 1) :
                          /\ EmittedRanges[k].start < EmittedRanges[k + 1].start
                          /\ TrimmedRange(EmittedRanges[k]).start
                                <= TrimmedRange(EmittedRanges[k + 1]).start
                          /\ TrimmedRange(EmittedRanges[k]).end
                                <= TrimmedRange(EmittedRanges[k + 1]).end

\* The function has returned three chunks, the first of which lost
\* whitespace at both ends.
C26_Witness ==
    /\ pc = "done"
    /\ Len(chunks) = 3
    /\ text[1] \in Whitespace
    /\ Len(chunks[1]) < ranges[1].end - 1

(***************************************************************************)
(* Further properties of ask_question.                                     *)
(***************************************************************************)

\* C27 (three confidence levels): on every path of ask_question (success,
\* not found, search failure, generator failure) the confidence of the
\* response is one of the three levels low, medium and high.
C27_ConfidenceIsOneOfThree ==
    (Answered /\ ret.kind = "return")
        => ret.value.confidence \in {CONFIDENCE_LOW, CONFIDENCE_MEDIUM, CONFIDENCE_HIGH}

\* C28 (provenance matches the context): on a successful answer the
\* context handed to the generator holds the labelled texts of the first k
\* search results, sources has an entry for exactly these k chunks, and
\* chunks_used is k, also when the token budget stopped the context before
\* the last search result.
C28_SourcesAreInContext ==
    Succeeded =>
        LET results == search_results.value
            context == requests[1].prompt.context
        IN  \E k \in 0..Len(results) :
                /\ context = Join(<<Newline>>, [i \in 1..k |-> ChunkText(results[i])])
                /\ ret.value.chunks_used = k
                /\ Len(ret.value.sources) = k
                /\ \A i \in 1..k : ret.value.sources[i].chunk_id = results[i].chunk_id

(***************************************************************************)
(* ArchivePipeline.run_full_pipeline in a project without data: one        *)
(* archive to extract, and empty data directories.  One step is one pass   *)
(* through the loop over the stages, the whole stage function included.    *)
(***************************************************************************)

\* The step names of the list `steps`, in its order.
STEPS == <<"extract_archives", "ocr_processing", "text_processing",
           "create_embeddings", "build_search_index">>

StepNames == {STEPS[n] : n \in DOMAIN STEPS}

\* The loop has taken up stage n and the stage function has reported `ok`
\* after producing `produced` items: `if not step_func(): return False`.
Reported(p, n, ok, produced) ==
    [p EXCEPT !.reports = Append(@, [step |-> n, ok |-> ok, produced |-> produced]),
              !.step = n + 1,
              !.pc = IF ok THEN "loop" ELSE "done"]

\* What the call has returned after a stage reported: False at once when
\* the stage failed.
ReturnedAfter(ok) == IF ok THEN None ELSE Returned(FALSE)

\* The loop is at stage n and the stage is not skipped.
AtStep(n) ==
    /\ pipeline # None
    /\ pipeline.pc = "loop"
    /\ pipeline.step = n
    /\ STEPS[n] \notin pipeline.skip_steps

\* run_full_pipeline(batch_size, skip_steps) is called.
RunFullPipeline ==
    /\ Idle
    /\ pipeline = None
    /\ \E skip_steps \in SUBSET StepNames :
          /\ call' = [op |-> "run_full_pipeline", skip_steps |-> skip_steps]
          /\ pipeline' = [pc |-> "loop", step |-> 1, skip_steps |-> skip_steps,
                          reports |-> <<>>]
    /\ ret' = None
    /\ UNCHANGED <<all_files, tiff_dir, text_dir, ocr>>
    /\ UNCHANGED <<index_file, index_data, model, loaded>>
    /\ UNCHANGED <<chunkVars, ragVars, dirVars>>

\* `if step_name in skip_steps: continue`
SkipStep ==
    /\ pipeline # None
    /\ pipeline.pc = "loop"
    /\ pipeline.step \in DOMAIN STEPS
    /\ STEPS[pipeline.step] \in pipeline.skip_steps
    /\ pipeline' = [pipeline EXCEPT !.step = @ + 1]
    /\ UNCHANGED <<all_files, tiff_dir, text_dir, ocr>>
    /\ UNCHANGED <<engineVars, chunkVars, ragVars, dirVars>>

\* step1_extract_archives: False when the metadata counts no file.
Step1ExtractArchives ==
    /\ AtStep(1)
    /\ \E tiff_files \in UNION {[1..n -> TiffEntries] : n \in 0..MaxEntries} :
          LET files == ExtractTiffFiles(ArchiveId, tiff_files)
              ok == Len(files) # 0
          IN  /\ all_files' = files
              /\ tiff_dir' = UniqueIds(files)
              /\ pipeline' = Reported(pipeline, 1, ok, Len(files))
              /\ ret' = ReturnedAfter(ok)
    /\ UNCHANGED <<text_dir, ocr>>
    /\ UNCHANGED <<index_file, index_data, model, loaded, call>>
    /\ UNCHANGED <<chunkVars, ragVars, dirVars>>

\* step2_ocr_processing: process_extracted_files with resume over the
\* listed files, each written, or failing before or while its output is
\* written; False when the output directory holds no .json file afterwards.
Step2OcrProcessing ==
    /\ AtStep(2)
    /\ LET todo == {u \in UniqueIds(all_files) :
                       u \notin ProcessedFiles(TRUE, text_dir) /\ u \in tiff_dir}
       IN  \E outcome \in [todo -> {"written", "open raises", "write raises"}] :
              LET left == {u \in todo : outcome[u] # "open raises"}
                  dir == [u \in left \cup DOMAIN text_dir |->
                            IF u \in left
                            THEN OutputFile(u, 1, outcome[u] = "written")
                            ELSE text_dir[u]]
                  total_text_files == Cardinality(DOMAIN dir)
                  ok == total_text_files # 0
              IN  /\ text_dir' = dir
                  /\ pipeline' = Reported(pipeline, 2, ok, total_text_files)
                  /\ ret' = ReturnedAfter(ok)
    /\ UNCHANGED <<all_files, tiff_dir, ocr>>
    /\ UNCHANGED <<index_file, index_data, model, loaded, call>>
    /\ UNCHANGED <<chunkVars, ragVars, dirVars>>

\* step3_text_processing: False when process_all_extracted_texts returns
\* nothing (no .json file) or raises.
Step3TextProcessing ==
    /\ AtStep(3)
    /\ \E json_files \in ListDir(text_dir) :
          LET writes == ChunkWrites(text_dir, json_files)
              ok == json_files # <<>> /\ Len(writes) = Len(json_files)
          IN  /\ chunk_dir' = WriteFiles(chunk_dir, writes)
              /\ pipeline' = Reported(pipeline, 3, ok, Len(writes))
              /\ ret' = ReturnedAfter(ok)
    /\ UNCHANGED <<all_files, tiff_dir, text_dir, ocr>>
    /\ UNCHANGED <<emb_dir, index_file, index_data, model, loaded, call>>
    /\ UNCHANGED <<chunkVars, ragVars>>

\* A Python int.
PyInt(n) == [class |-> "int", value |-> n]

\* total_chunks == 0, for what process_all_chunks returned: None (no
\* chunks file) is not equal to 0.
IsZero(total_chunks) == total_chunks = PyInt(0)

\* step4_create_embeddings: EmbeddingsCreator() loads the model, which can
\* raise; process_all_chunks returns None without chunks files and the
\* number of chunks otherwise; False on an exception and on the number 0.
Step4CreateEmbeddings ==
    /\ AtStep(4)
    /\ \E model_loads \in BOOLEAN, chunks_files \in ListDir(chunk_dir) :
          LET writes == [k \in 1..Len(chunks_files) |->
                            ProcessChunksFile(chunks_files[k], chunk_dir[chunks_files[k]])]
              dir == WriteFiles(emb_dir, writes)
              count == Sum([k \in 1..Len(chunks_files) |-> Len(chunk_dir[chunks_files[k]])])
              total_chunks == IF chunks_files = <<>> THEN None ELSE PyInt(count)
              ok == model_loads /\ ~IsZero(total_chunks)
          IN  /\ IF model_loads /\ chunks_files # <<>>
                 THEN /\ emb_dir' = dir
                      /\ \E embedding_files \in ListDir(dir) :
                            index_file' = CreateSearchIndex(dir, embedding_files, index_file)
                 ELSE UNCHANGED <<emb_dir, index_file>>
              /\ pipeline' = Reported(pipeline, 4, ok,
                                      IF model_loads THEN count ELSE 0)
              /\ ret' = ReturnedAfter(ok)
    /\ UNCHANGED <<all_files, tiff_dir, text_dir, ocr>>
    /\ UNCHANGED <<chunk_dir, index_data, model, loaded, call>>
    /\ UNCHANGED <<chunkVars, ragVars>>

\* step5_build_search_index: SearchEngine() and build_index(), then a test
\* search; False on any exception: no embeddings file, a model that does
\* not load, a search over an empty index.
Step5BuildSearchIndex ==
    /\ AtStep(5)
    /\ \E model_loads \in BOOLEAN, embedding_files \in ListDir(emb_dir) :
          LET built == CreateSearchIndex(emb_dir, embedding_files, index_file)
              constructed == index_file = None \/ model_loads
              ok == /\ constructed
                    /\ embedding_files # <<>>
                    /\ model_loads
                    /\ built.total_chunks # 0
          IN  /\ index_file' = IF constructed /\ embedding_files # <<>>
                               THEN built ELSE index_file
              /\ pipeline' = Reported(pipeline, 5, ok,
                                      IF constructed /\ embedding_files # <<>>
                                      THEN 1 ELSE 0)
              /\ ret' = ReturnedAfter(ok)
    /\ UNCHANGED <<all_files, tiff_dir, text_dir, ocr>>
    /\ UNCHANGED <<chunk_dir, emb_dir, index_data, model, loaded, call>>
    /\ UNCHANGED <<chunkVars, ragVars>>

\* The loop is over: return True.
PipelineReturns ==
    /\ pipeline # None
    /\ pipeline.pc = "loop"
    /\ pipeline.step = Len(STEPS) + 1
    /\ pipeline' = [pipeline EXCEPT !.pc = "done"]
    /\ ret' = Returned(TRUE)
    /\ UNCHANGED <<all_files, tiff_dir, text_dir, ocr>>
    /\ UNCHANGED <<index_file, index_data, model, loaded, call>>
    /\ UNCHANGED <<chunkVars, ragVars, dirVars>>

PipelineInit ==
    /\ NoChunking
    /\ NoRag
    /\ NoBatch
    /\ NoEngine

PipelineNext ==
    \/ RunFullPipeline
    \/ SkipStep
    \/ Step1ExtractArchives
    \/ Step2OcrProcessing
    \/ Step3TextProcessing
    \/ Step4CreateEmbeddings
    \/ Step5BuildSearchIndex
    \/ PipelineReturns
    \/ CallReturns

PipelineSpec == PipelineInit /\ [][PipelineNext]_vars

(***************************************************************************)
(* Properties of run_full_pipeline.                                        *)
(***************************************************************************)

\* C29 (pipeline order and failure): the stages run in the order extract,
\* OCR, chunking, embeddings, index build, all but the stages named in
\* skip_steps; no stage runs after a stage that reported failure, and the
\* call then returns False; it returns True only when every stage that was
\* not skipped reported success; and a stage that produced nothing (no
\* file extracted, no text, no chunk embedded) reports failure.
C29_PipelineStagesInOrder ==
    pipeline # None =>
        LET reports == pipeline.reports
            taken == {n \in DOMAIN STEPS :
                         n < pipeline.step /\ STEPS[n] \notin pipeline.skip_steps}
        IN  /\ \A i \in 1..(Len(reports) - 1) :
                  /\ reports[i].step < reports[i + 1].step
                  /\ reports[i].ok
            /\ {reports[i].step : i \in 1..Len(reports)} = taken
            /\ (Called("run_full_pipeline") /\ ret # None) =>
                  /\ ret.kind = "return"
                  /\ ret.value = FALSE <=>
                        (reports # <<>> /\ ~reports[Len(reports)].ok)
                  /\ ret.value = TRUE =>
                        /\ pipeline.step = Len(STEPS) + 1
                        /\ \A i \in 1..Len(reports) : reports[i].ok
            /\ \A i \in 1..Len(reports) :
                  reports[i].produced = 0 => ~reports[i].ok

(***************************************************************************)
(* clean_ocr_text                                                          *)
(*                                                                         *)
(* A regular expression substitution replaces the matches found from left  *)
(* to right, each match the longest at its place.                          *)
(***************************************************************************)

MaxRawLen == 4

Hyphen == "-"
Pipe == "|"
RawAlphabet == {Letter, Space, Newline, Period, Hyphen, Pipe}

\* The number of characters of the set S that follow one another in t
\* from position i on.
RECURSIVE RunLen(_, _, _)
RunLen(t, i, S) ==
    IF i > Len(t) THEN 0
    ELSE IF t[i] \notin S THEN 0
    ELSE 1 + RunLen(t, i + 1, S)

\* re.sub(r'[S]{least,}', repl, t), from position i on.
RECURSIVE SubRuns(_, _, _, _, _)
SubRuns(t, i, S, least, repl) ==
    IF i > Len(t) THEN <<>>
    ELSE LET n == RunLen(t, i, S)
         IN  IF n >= least THEN repl \o SubRuns(t, i + n, S, least, repl)
             ELSE IF n > 0 THEN SubSeq(t, i, i + n - 1) \o SubRuns(t, i + n, S, least, repl)
             ELSE <<t[i]>> \o SubRuns(t, i + 1, S, least, repl)

\* The characters the third substitution keeps, among those of the texts
\* studied: word characters, whitespace, period and hyphen.
Kept(c) == c \in {Letter, Space, Newline, Period, Hyphen}

\* [\.\-\|]
LeadingPunctuation == {Period, Hyphen, Pipe}

\* re.sub(r'^\s*[\.\-\|]+\s*', '', t, flags=re.MULTILINE), from position i
\* on: ^ matches at the start of t and after every newline of t.
RECURSIVE SubLineStarts(_, _)
SubLineStarts(t, i) ==
    IF i > Len(t) THEN <<>>
    ELSE LET at_line_start == IF i = 1 THEN TRUE ELSE t[i - 1] = Newline
             before == RunLen(t, i, Whitespace)
             marks == RunLen(t, i + before, LeadingPunctuation)
             after == RunLen(t, i + before + marks, Whitespace)
         IN  IF at_line_start /\ marks > 0
             THEN SubLineStarts(t, i + before + marks + after)
             ELSE <<t[i]>> \o SubLineStarts(t, i + 1)

\* re.sub(r'\n\s*\n', '\n', t), from position i on.
RECURSIVE SubBlankLines(_, _)
SubBlankLines(t, i) ==
    IF i > Len(t) THEN <<>>
    ELSE LET n == RunLen(t, i + 1, Whitespace)
             newlines == {j \in (i + 1)..(i + n) : t[j] = Newline}
         IN  IF t[i] = Newline /\ newlines # {}
             THEN <<Newline>>
                  \o SubBlankLines(t, (CHOOSE j \in newlines : \A k \in newlines : k <= j) + 1)
             ELSE <<t[i]>> \o SubBlankLines(t, i + 1)

\* t.split('\n')
RECURSIVE SplitLines(_)
SplitLines(t) ==
    LET newlines == {j \in 1..Len(t) : t[j] = Newline}
    IN  IF newlines = {} THEN <<t>>
        ELSE LET j == CHOOSE j \in newlines : \A k \in newlines : j <= k
             IN  <<SubSeq(t, 1, j - 1)>> \o SplitLines(SubSeq(t, j + 1, Len(t)))

\* clean_lines: the stripped lines of more than 2 characters
CleanLines(lines) ==
    SelectSeq([k \in 1..Len(lines) |-> Strip(lines[k])], LAMBDA line : Len(line) > 2)

\* clean_ocr_text(text)
CleanOcrText(raw) ==
    LET t1 == SubRuns(raw, 1, {Pipe}, 1, <<Space>>)
        t2 == SubRuns(t1, 1, {"_", Hyphen}, 3, <<Space>>)
        t3 == [k \in 1..Len(t2) |-> IF Kept(t2[k]) THEN t2[k] ELSE Space]
        t4 == SubRuns(t3, 1, Whitespace, 1, <<Space>>)
        t5 == SubLineStarts(t4, 1)
        t6 == SubBlankLines(t5, 1)
    IN  Join(<<Newline>>, CleanLines(SplitLines(t6)))

\* clean_ocr_text(text) is called and returns.
CleanText ==
    /\ Idle
    /\ \E raw \in SeqsUpTo(RawAlphabet, MaxRawLen) :
          /\ call' = [op |-> "clean_ocr_text", text |-> raw]
          /\ ret' = Returned(CleanOcrText(raw))
    /\ UNCHANGED <<index_file, index_data, model, loaded>>
    /\ UNCHANGED <<chunkVars, ragVars, batchVars, dirVars>>

CleanInit ==
    /\ NoChunking
    /\ NoRag
    /\ NoBatch
    /\ NoEngine

CleanNext == CleanText \/ CallReturns

CleanSpec == CleanInit /\ [][CleanNext]_vars

(***************************************************************************)
(* Properties of clean_ocr_text.                                           *)
(***************************************************************************)

\* A line without its leading punctuation-only sequence: periods, hyphens
\* and pipes with the spaces around them.
WithoutLeadingSequence(line) ==
    LET before == RunLen(line, 1, {Space})
        marks == RunLen(line, 1 + before, LeadingPunctuation)
        after == RunLen(line, 1 + before + marks, {Space})
    IN  IF marks > 0 THEN SubSeq(line, 1 + before + marks + after, Len(line))
        ELSE line

\* The text with the leading punctuation-only sequence of every line
\* removed.
WithoutLeadingSequences(raw) ==
    LET lines == SplitLines(raw)
    IN  Join(<<Newline>>, [k \in 1..Len(lines) |-> WithoutLeadingSequence(lines[k])])

\* C30 (leading punctuation of every line): clean_ocr_text strips the
\* leading punctuation-only sequence from the start of every line of its
\* input, so no line contributes such a sequence to the output: the output
\* is the output for the text whose lines have these sequences removed.
C30_EveryLineStripped ==
    Called("clean_ocr_text")
        => ret.value = CleanOcrText(WithoutLeadingSequences(call.text))

====
